---------------------------- MODULE Spec2Model ----------------------------
(***************************************************************************)
(* Model of the UTRA HACKS robot controller: the Navigation decision       *)
(* engine (navigation.cpp), the sensor snapshot (sensors.cpp), the gripper *)
(* bookkeeping (servos.cpp) and the three modular mission state machines   *)
(* (section1.ino, section2.ino, section3.ino).                             *)
(*                                                                         *)
(* Time is in milliseconds.  Distances are in whole centimetres; 999 is    *)
(* the "no echo" reading.  A drive command is a pair <<operation, speed>>. *)
(***************************************************************************)
EXTENDS Integers, Sequences, FiniteSets, TLC

(***************************************************************************)
(* constants.h                                                             *)
(***************************************************************************)
SPEED_SLOW == 100
SPEED_NORMAL == 150
SPEED_FAST == 200
SPEED_TURN == 120
DIST_OBSTACLE == 15
DIST_WALL_HUG == 10
DIST_BOX_PICKUP == 5
DIST_BALL_DETECT == 20
TIME_TURN_90 == 500
TIME_TURN_45 == 250
TIME_TURN_180 == 1000
SERVO_CLAMP_OPEN == 90
SERVO_CLAMP_CLOSED == 0
SERVO_ARM_UP == 90
SERVO_ARM_DOWN == 0
SERVO_ARM_CARRY == 45
TIME_LOOP_DELAY == 50
TIMEOUT_RAMP == 5000
TIMEOUT_SEARCH == 3000
TIMEOUT_RETURN == 5000
COLOR_FREQ_MAX == 150
COLOR_FREQ_BLACK == 200
COLOR_FREQ_WHITE == 50
COLOR_MARGIN == 20
ULTRA_TIMEOUT_US == 25000
\* ULTRA_SPEED_CM (0.034 cm/us) in thousandths of a centimetre per us.
ULTRA_SPEED_MILLICM == 34
\* Sensors::readDistance: the value returned when pulseIn times out.
NO_ECHO == 999
\* Sensors::readColorRaw: the value a channel is given when pulseIn times out.
FREQ_TIMEOUT == 999
\* uint8_t: the number of values of Navigation::searchCount.
UINT8_MOD == 256
\* uint16_t: the number of values of turnTime in Navigation::turn.
UINT16_MOD == 65536
\* section1.ino TO_REUPLOAD: millis() - stateStartTime > 3000
S1_REUPLOAD_TIMEOUT == 3000
\* section2.ino RETURN_RAMP: millis() - stateStartTime > 4000
S2_RETURN_RAMP_TIMEOUT == 4000
\* section3.ino FIND_RED_LINE: millis() - stateStartTime > 3000
S3_FIND_RED_TIMEOUT == 3000
\* section3.ino PASS_REUPLOAD: millis() - stateStartTime > 5000
S3_PASS_REUPLOAD_TIMEOUT == 5000
\* section3.ino RETURN_INTERSECTION: millis() - stateStartTime > 5000
S3_RETURN_INTERSECTION_TIMEOUT == 5000
\* target_section.ino CLIMB_RAMP: millis() - stateStartTime > 5000
TS_RAMP_TIMEOUT == 5000
\* target_section.ino FIND_BALL: millis() - stateStartTime > 3000
TS_FIND_BALL_TIMEOUT == 3000

(***************************************************************************)
(* Bounds of the model.                                                    *)
(***************************************************************************)
\* Longest run of consecutive "no colour" followColorLine calls that the
\* run counter of the navigation harness follows (past the 8-bit wrap).
MaxRun == 258
\* Longest run of consecutive "same colour" navigateToCenter calls that the
\* run counter follows (past the second pivot).
MaxCenterRun == 14
\* Longest sequence of operations of Servos that the servo test calls.
MaxServoOps == 5
\* Longest sequence of operations of TestFramework that is followed.
MaxTestOps == 4
\* Most consecutive "no colour" readings a mission state that follows a
\* colour line is given (NAV_LOST is returned from the 11th on).
MaxLost == 12
\* The echo durations in us that the ultrasonic test samples one by one.
MaxNearDuration == 900

(***************************************************************************)
(* Types                                                                   *)
(***************************************************************************)
Colors == {"NONE", "BLACK", "WHITE", "RED", "GREEN", "BLUE"}

NavResults ==
  {"NAV_CONTINUE", "NAV_TARGET_FOUND", "NAV_OBSTACLE", "NAV_LOST", "NAV_TIMEOUT"}

\* Distance readings the ultrasonic sensor is sampled at: each side of, and
\* on, every threshold the code compares a distance with (5, 7, 15, 20),
\* a reading beyond all of them, and the no-echo value.
DistVals == {3, 5, 10, 15, 18, 20, 30, NO_ECHO}

\* The duration in ms of one Sensors::readAll (three delay(TIME_SENSOR_READ)
\* plus four pulseIn waits, each bounded by its timeout), sampled at a short
\* and a long value.
ReadCosts == {50, 150}

\* What the sensors deliver to one Sensors::readAll.
Inputs ==
  [color : Colors, distance : DistVals, left : BOOLEAN, right : BOOLEAN]

\* Motors
CmdStop == <<"stop", 0>>
Forward(speed) == <<"forward", speed>>
TurnLeft(speed) == <<"turnLeft", speed>>
TurnRight(speed) == <<"turnRight", speed>>
CurveLeft(speed) == <<"curveLeft", speed>>
CurveRight(speed) == <<"curveRight", speed>>

Abs(n) == IF n < 0 THEN -n ELSE n
\* C integer division: the quotient is truncated toward zero.
TruncDiv(a, b) == IF a >= 0 THEN a \div b ELSE -((-a) \div b)
\* An int product kept in 16 bits, two's complement.
WrapInt16(n) ==
  LET m == n % UINT16_MOD IN IF m >= UINT16_MOD \div 2 THEN m - UINT16_MOD ELSE m
Last(s) == s[Len(s)]

VARIABLES
  prog,             \* the sketch that runs: "s1", "s2", "s3", or "navBlack",
                    \* "navColor", "navCenter", "navAvoid" (one primitive
                    \* called again and again on fresh snapshots, as
                    \* test_navigation.cpp does), or "colorInt16",
                    \* "colorInt32" (the colour sensor test
                    \* TestSensors::ColorSensor, int 16 or 32 bits wide),
                    \* "ultra" (its ultrasonic test), "navHug",
                    \* "navSearch", "navTurn" (wallHugUntilClear,
                    \* searchForLine, turn called on their own), "servos"
                    \* (the operations of Servos called in any order), or
                    \* "target" (the standalone target_section.ino)
  pc,               \* position of the sketch: "loop" (between two calls or
                    \* two loop() iterations), a step of avoidObstacleRight,
                    \* or "halted" (inside COMPLETE's while (true))
  currentState,     \* State currentState
  elapsed,          \* millis() - stateStartTime, see Sat
  checkElapsed,     \* millis() - stateStartTime as the handler of the last
                    \* tick compared it with its budget (kept as elapsed
                    \* is, see Sat), -1 if it made no comparison
  sensors,          \* SensorData sensors
  searchCount,      \* Navigation::searchCount (uint8_t)
  searchDirection,  \* Navigation::searchDirection
  holding,          \* Servos::holding
  obstacleCount,    \* section3.ino: obstacleCount
  selSearchDir,     \* section1.ino SELECT_GREEN: static searchDir
  selSearchAttempts,\* section1.ino SELECT_GREEN: static searchAttempts
  cmds,             \* drive commands issued by the last step, in order
  lastDrive,        \* the drive command in effect
  navResult,        \* what the last Navigation primitive returned
  lastCall,         \* the primitive the last step called, "" if none
  hugI,             \* wallHugUntilClear: loop index i
  hugMax,           \* wallHugUntilClear: maxSteps, 0 when it is not running
  hugReads,         \* wallHugUntilClear: calls of Sensors::readDistance it
                    \* has made
  avoidObs,         \* avoidObstacleRight: how far its commands so far have
                    \* got through the expected order, see Observe
  avoidHug,         \* avoidObstacleRight: commands issued by the wall-hug
  avoidFirst,       \* avoidObstacleRight: its first drive command
  search,           \* Navigation::searchForLine: targetColor, maxTime, the
                    \* time t since startTime, the colour its last
                    \* snapshot has seen, and the value returned
  tick,             \* the iteration of loop() under way or just ended: the
                    \* calls of Sensors::readAll(sensors), of Navigation
                    \* primitives and maneuvers, and of transitionTo its
                    \* handler has made
  turned,           \* harness: the degrees and the turnTime of the last
                    \* Navigation::turn called on its own
  servo,            \* harness: Servos::currentClampAngle and
                    \* currentArmAngle in the test of Servos, and the
                    \* number of operations called so far
  tests,            \* harness: the four counters of TestFramework, what
                    \* its last operation returned (nothing when void),
                    \* and the number of operations followed so far
  target,           \* harness: the targetColor passed to followColorLine
  run               \* harness: in the ultrasonic test, the duration in us
                    \* of the last echo; else the consecutive calls since
                    \* searchCount was
                    \* last set to 0 by reset() or by followColorLine, all
                    \* of them followColorLine calls that saw no colour and
                    \* no obstacle, or all of them navigateToCenter calls
                    \* that saw the colour unchanged; -1 after another call

vars ==
  <<prog, pc, currentState, elapsed, checkElapsed, sensors, searchCount,
    searchDirection, holding, obstacleCount, selSearchDir, selSearchAttempts,
    cmds, lastDrive, navResult, lastCall, hugI, hugMax, hugReads, avoidObs,
    avoidHug, avoidFirst, search, tick, turned, servo, tests, target,
    run>>

(***************************************************************************)
(* sensors.cpp                                                             *)
(***************************************************************************)
\* readUltrasonic that never reports an obstacle.
readUltrasonic_blind(d) == FALSE

\* readUltrasonic without the upper limit on the distance.
readUltrasonic_noUpper(d) == d > 0

\* Sensors::readUltrasonic: obstacleDetected from the distance just read.
readUltrasonic(d) == d > 0 /\ d < DIST_OBSTACLE

\* readAll that sets previousColor after the colour has been read.
readAll_previousIsNew(data, in) ==
  [ detectedColor    |-> in.color,
    previousColor    |-> in.color,
    distance         |-> in.distance,
    obstacleDetected |-> readUltrasonic(in.distance),
    leftOnLine       |-> in.left,
    rightOnLine      |-> in.right ]

\* Sensors::readAll(data): previousColor takes the old detectedColor, every
\* other field is read anew.
readAll(data, in) ==
  [ detectedColor    |-> in.color,
    previousColor    |-> data.detectedColor,
    distance         |-> in.distance,
    obstacleDetected |-> readUltrasonic(in.distance),
    leftOnLine       |-> in.left,
    rightOnLine      |-> in.right ]

\* A zero-initialised global SensorData.
ZeroSensors ==
  [ detectedColor |-> "NONE", previousColor |-> "NONE", distance |-> 0,
    obstacleDetected |-> FALSE, leftOnLine |-> FALSE, rightOnLine |-> FALSE ]

(***************************************************************************)
(* The colour sensor.  A channel reading is the width of a pulse in        *)
(* microseconds, 0 when pulseIn timed out.  The operands of detectColor    *)
(* are uint16_t; in `g - COLOR_MARGIN` they are converted as C converts    *)
(* them: to unsigned int where int has 16 bits (Arduino Uno/Nano), so that *)
(* the difference is taken modulo 2^16, and to int where int has 32 bits   *)
(* (Arduino UNO R4 Minima), so that the difference can be negative.        *)
(***************************************************************************)
\* The pulse widths the colour sensor is sampled at: a timeout, values on
\* and on each side of COLOR_FREQ_WHITE, COLOR_FREQ_MAX and
\* COLOR_FREQ_BLACK, pairs that differ by less than, by exactly and by more
\* than COLOR_MARGIN, values below COLOR_MARGIN, and the longest pulse.
PulseVals ==
  {0, 10, 30, 49, 50, 60, 80, 100, 130, 149, 150, 170, 200, 201, 250, 40000}

\* Sensors::readColorRaw, one channel: the pulse width as uint16_t, a
\* timeout (0) replaced by FREQ_TIMEOUT.
readChannel(p) ==
  IF p % UINT16_MOD = 0 THEN FREQ_TIMEOUT ELSE p % UINT16_MOD

\* x - COLOR_MARGIN taken modulo 2^16 whatever the width of int.
minusMargin_wrapping(x, intBits) == (x - COLOR_MARGIN) % UINT16_MOD

\* x - COLOR_MARGIN for a uint16_t x, where int has intBits bits.
minusMargin(x, intBits) ==
  IF intBits = 16 THEN (x - COLOR_MARGIN) % UINT16_MOD ELSE x - COLOR_MARGIN

\* detectColor that takes a reading with a timed-out channel for no colour.
detectColor_timeoutIsNone(r, g, b, intBits) ==
  IF FREQ_TIMEOUT \in {r, g, b} THEN "NONE"
  ELSE IF r > COLOR_FREQ_BLACK /\ g > COLOR_FREQ_BLACK
          /\ b > COLOR_FREQ_BLACK THEN "BLACK"
  ELSE IF r < COLOR_FREQ_WHITE /\ g < COLOR_FREQ_WHITE
          /\ b < COLOR_FREQ_WHITE THEN "WHITE"
  ELSE IF r < minusMargin(g, intBits) /\ r < minusMargin(b, intBits)
          /\ r < COLOR_FREQ_MAX THEN "RED"
  ELSE IF g < minusMargin(r, intBits) /\ g < minusMargin(b, intBits)
          /\ g < COLOR_FREQ_MAX THEN "GREEN"
  ELSE IF b < minusMargin(r, intBits) /\ b < minusMargin(g, intBits)
          /\ b < COLOR_FREQ_MAX THEN "BLUE"
  ELSE "NONE"

\* detectColor that tests WHITE after the three colours.
detectColor_whiteLast(r, g, b, intBits) ==
  IF r > COLOR_FREQ_BLACK /\ g > COLOR_FREQ_BLACK
     /\ b > COLOR_FREQ_BLACK THEN "BLACK"
  ELSE IF r < minusMargin(g, intBits) /\ r < minusMargin(b, intBits)
          /\ r < COLOR_FREQ_MAX THEN "RED"
  ELSE IF g < minusMargin(r, intBits) /\ g < minusMargin(b, intBits)
          /\ g < COLOR_FREQ_MAX THEN "GREEN"
  ELSE IF b < minusMargin(r, intBits) /\ b < minusMargin(g, intBits)
          /\ b < COLOR_FREQ_MAX THEN "BLUE"
  ELSE IF r < COLOR_FREQ_WHITE /\ g < COLOR_FREQ_WHITE
          /\ b < COLOR_FREQ_WHITE THEN "WHITE"
  ELSE "NONE"

\* Sensors::detectColor(r, g, b), built where int has intBits bits.
detectColor(r, g, b, intBits) ==
  IF r > COLOR_FREQ_BLACK /\ g > COLOR_FREQ_BLACK
     /\ b > COLOR_FREQ_BLACK THEN "BLACK"
  ELSE IF r < COLOR_FREQ_WHITE /\ g < COLOR_FREQ_WHITE
          /\ b < COLOR_FREQ_WHITE THEN "WHITE"
  ELSE IF r < minusMargin(g, intBits) /\ r < minusMargin(b, intBits)
          /\ r < COLOR_FREQ_MAX THEN "RED"
  ELSE IF g < minusMargin(r, intBits) /\ g < minusMargin(b, intBits)
          /\ g < COLOR_FREQ_MAX THEN "GREEN"
  ELSE IF b < minusMargin(r, intBits) /\ b < minusMargin(g, intBits)
          /\ b < COLOR_FREQ_MAX THEN "BLUE"
  ELSE "NONE"

\* The RED, GREEN and BLUE tests of Sensors::detectColor, each on its own.
redTest(r, g, b, intBits) ==
  r < minusMargin(g, intBits) /\ r < minusMargin(b, intBits)
    /\ r < COLOR_FREQ_MAX

greenTest(r, g, b, intBits) ==
  g < minusMargin(r, intBits) /\ g < minusMargin(b, intBits)
    /\ g < COLOR_FREQ_MAX

blueTest(r, g, b, intBits) ==
  b < minusMargin(r, intBits) /\ b < minusMargin(g, intBits)
    /\ b < COLOR_FREQ_MAX

\* The tests of detectColor with the three colour tests in the opposite
\* order: BLUE, then GREEN, then RED.
detectColor_blueFirst(r, g, b, intBits) ==
  IF r > COLOR_FREQ_BLACK /\ g > COLOR_FREQ_BLACK
     /\ b > COLOR_FREQ_BLACK THEN "BLACK"
  ELSE IF r < COLOR_FREQ_WHITE /\ g < COLOR_FREQ_WHITE
          /\ b < COLOR_FREQ_WHITE THEN "WHITE"
  ELSE IF blueTest(r, g, b, intBits) THEN "BLUE"
  ELSE IF greenTest(r, g, b, intBits) THEN "GREEN"
  ELSE IF redTest(r, g, b, intBits) THEN "RED"
  ELSE "NONE"

\* The classification of readColor of the standalone sketches with the
\* WHITE test of Sensors::detectColor added.
TS_readColor_withWhite(r, g, b, intBits) == detectColor(r, g, b, intBits)

\* The classification step of readColor of the standalone sketches
\* (target_section; obstacle_section and the start section have the same
\* text): the tests of Sensors::detectColor but the WHITE one.
TS_readColor(r, g, b, intBits) ==
  IF r > COLOR_FREQ_BLACK /\ g > COLOR_FREQ_BLACK
     /\ b > COLOR_FREQ_BLACK THEN "BLACK"
  ELSE IF r < minusMargin(g, intBits) /\ r < minusMargin(b, intBits)
          /\ r < COLOR_FREQ_MAX THEN "RED"
  ELSE IF g < minusMargin(r, intBits) /\ g < minusMargin(b, intBits)
          /\ g < COLOR_FREQ_MAX THEN "GREEN"
  ELSE IF b < minusMargin(r, intBits) /\ b < minusMargin(g, intBits)
          /\ b < COLOR_FREQ_MAX THEN "BLUE"
  ELSE "NONE"

\* Sensors::readColor(data), after readColorRaw has filled the three
\* frequencies: the colour they are classified as.
readColor(data, intBits) ==
  [data EXCEPT !.detectedColor =
     detectColor(data.redFreq, data.greenFreq, data.blueFreq, intBits)]

\* A zero-initialised SensorData, the three frequencies included.
ZeroColorData ==
  [ redFreq |-> 0, greenFreq |-> 0, blueFreq |-> 0,
    detectedColor |-> "NONE", previousColor |-> "NONE", distance |-> 0,
    obstacleDetected |-> FALSE, leftOnLine |-> FALSE, rightOnLine |-> FALSE ]

(***************************************************************************)
(* The ultrasonic sensor, from the echo pulse.  A duration is in           *)
(* microseconds, 0 when pulseIn timed out.  The distance that readDistance *)
(* computes is kept here in thousandths of a centimetre, in which          *)
(* duration * ULTRA_SPEED_CM / 2 is a whole number.                        *)
(***************************************************************************)
\* readDistance that answers a timeout with 0.
readDistance_zeroOnTimeout(duration) ==
  (duration * ULTRA_SPEED_MILLICM) \div 2

\* Sensors::readDistance, in thousandths of a centimetre.
readDistance(duration) ==
  IF duration = 0 THEN NO_ECHO * 1000
  ELSE (duration * ULTRA_SPEED_MILLICM) \div 2

\* Sensors::readUltrasonic(data) on an echo of the given duration, the
\* distance in thousandths of a centimetre.
readUltrasonicEcho(data, duration) ==
  LET d == readDistance(duration)
  IN  [data EXCEPT !.distance = d,
                   !.obstacleDetected = (d > 0 /\ d < DIST_OBSTACLE * 1000)]

(***************************************************************************)
(* navigation.cpp: the single-call primitives, as functions from the       *)
(* snapshot and the search state to the commands issued, the result and    *)
(* the new search state.                                                   *)
(***************************************************************************)
\* followBlackLine with the two curve commands exchanged.
followBlackLine_swapped(data) ==
  IF data.obstacleDetected
    THEN [cmds |-> <<CmdStop>>, result |-> "NAV_OBSTACLE"]
  ELSE IF data.leftOnLine /\ data.rightOnLine
    THEN [cmds |-> <<Forward(SPEED_NORMAL)>>, result |-> "NAV_CONTINUE"]
  ELSE IF data.leftOnLine /\ ~data.rightOnLine
    THEN [cmds |-> <<CurveRight(SPEED_NORMAL)>>, result |-> "NAV_CONTINUE"]
  ELSE IF ~data.leftOnLine /\ data.rightOnLine
    THEN [cmds |-> <<CurveLeft(SPEED_NORMAL)>>, result |-> "NAV_CONTINUE"]
  ELSE [cmds |-> <<Forward(SPEED_SLOW)>>, result |-> "NAV_LOST"]

followBlackLine(data) ==
  IF data.obstacleDetected
    THEN [cmds |-> <<CmdStop>>, result |-> "NAV_OBSTACLE"]
  ELSE IF data.leftOnLine /\ data.rightOnLine
    THEN [cmds |-> <<Forward(SPEED_NORMAL)>>, result |-> "NAV_CONTINUE"]
  ELSE IF data.leftOnLine /\ ~data.rightOnLine
    THEN [cmds |-> <<CurveLeft(SPEED_NORMAL)>>, result |-> "NAV_CONTINUE"]
  ELSE IF ~data.leftOnLine /\ data.rightOnLine
    THEN [cmds |-> <<CurveRight(SPEED_NORMAL)>>, result |-> "NAV_CONTINUE"]
  ELSE [cmds |-> <<Forward(SPEED_SLOW)>>, result |-> "NAV_LOST"]

followColorLine(data, targetColor, sc) ==
  IF data.obstacleDetected
    THEN [cmds |-> <<CmdStop>>, result |-> "NAV_OBSTACLE", searchCount |-> sc]
  ELSE IF data.detectedColor = targetColor
    THEN [cmds |-> <<Forward(SPEED_NORMAL)>>, result |-> "NAV_CONTINUE",
          searchCount |-> 0]
  ELSE IF data.detectedColor # "NONE" /\ data.detectedColor # targetColor
    THEN [cmds |-> <<CmdStop>>, result |-> "NAV_TARGET_FOUND",
          searchCount |-> sc]
  ELSE LET n == (sc + 1) % UINT8_MOD
       IN  [cmds |-> <<Forward(SPEED_SLOW)>>,
            result |-> IF n > 10 THEN "NAV_LOST" ELSE "NAV_CONTINUE",
            searchCount |-> n]

\* navigateToCenter that pivots without alternating the direction.
navigateToCenter_noFlip(data, sc, sd) ==
  IF data.detectedColor # data.previousColor /\ data.detectedColor # "NONE"
    THEN [cmds |-> <<Forward(SPEED_SLOW)>>, result |-> "NAV_TARGET_FOUND",
          searchCount |-> 0, searchDirection |-> sd, cost |-> 100]
  ELSE LET n == (sc + 1) % UINT8_MOD
       IN  IF n > 5
             THEN [cmds |-> <<Forward(SPEED_SLOW),
                              IF sd > 0 THEN TurnRight(SPEED_TURN)
                                        ELSE TurnLeft(SPEED_TURN),
                              CmdStop>>,
                   result |-> "NAV_CONTINUE",
                   searchCount |-> 0, searchDirection |-> sd, cost |-> 300]
             ELSE [cmds |-> <<Forward(SPEED_SLOW)>>,
                   result |-> "NAV_CONTINUE",
                   searchCount |-> n, searchDirection |-> sd, cost |-> 100]

\* navigateToCenter that takes a change to "no colour" for a ring boundary.
navigateToCenter_anyChange(data, sc, sd) ==
  IF data.detectedColor # data.previousColor
    THEN [cmds |-> <<Forward(SPEED_SLOW)>>, result |-> "NAV_TARGET_FOUND",
          searchCount |-> 0, searchDirection |-> sd, cost |-> 100]
  ELSE LET n == (sc + 1) % UINT8_MOD
       IN  IF n > 5
             THEN [cmds |-> <<Forward(SPEED_SLOW),
                              IF sd > 0 THEN TurnRight(SPEED_TURN)
                                        ELSE TurnLeft(SPEED_TURN),
                              CmdStop>>,
                   result |-> "NAV_CONTINUE",
                   searchCount |-> 0, searchDirection |-> -sd, cost |-> 300]
             ELSE [cmds |-> <<Forward(SPEED_SLOW)>>,
                   result |-> "NAV_CONTINUE",
                   searchCount |-> n, searchDirection |-> sd, cost |-> 100]

navigateToCenter(data, sc, sd) ==
  IF data.detectedColor # data.previousColor /\ data.detectedColor # "NONE"
    THEN [cmds |-> <<Forward(SPEED_SLOW)>>, result |-> "NAV_TARGET_FOUND",
          searchCount |-> 0, searchDirection |-> sd, cost |-> 100]
  ELSE LET n == (sc + 1) % UINT8_MOD
       IN  IF n > 5
             THEN [cmds |-> <<Forward(SPEED_SLOW),
                              IF sd > 0 THEN TurnRight(SPEED_TURN)
                                        ELSE TurnLeft(SPEED_TURN),
                              CmdStop>>,
                   result |-> "NAV_CONTINUE",
                   searchCount |-> 0, searchDirection |-> -sd, cost |-> 300]
             ELSE [cmds |-> <<Forward(SPEED_SLOW)>>,
                   result |-> "NAV_CONTINUE",
                   searchCount |-> n, searchDirection |-> sd, cost |-> 100]

\* Navigation::turn: turnTime = (uint16_t)(abs(degrees) * TIME_TURN_90 / 90).
\* The product is an int: 32 bits wide on the UNO R4 the README of the
\* sketches names, 16 bits wide on the Uno/Nano the top-level README names,
\* where it wraps from 66 degrees on.  Both builds are kept.
turnTimes(degrees) ==
  LET product == Abs(degrees) * TIME_TURN_90
  IN  { (product \div 90) % UINT16_MOD,
        TruncDiv(WrapInt16(product), 90) % UINT16_MOD }

\* Navigation::turn(degrees) with the default speed: the pivot, the stop,
\* and the times it can take (turnTime plus the 50 ms settling delay).
turn(degrees) ==
  [cmds |-> <<IF degrees > 0 THEN TurnRight(SPEED_TURN)
                             ELSE TurnLeft(SPEED_TURN), CmdStop>>,
   costs |-> {t + 50 : t \in turnTimes(degrees)}]


\* Navigation::reset(): the search state it leaves (lastStateChange is
\* written here and read nowhere).
reset == [searchCount |-> 0, searchDirection |-> 1]

\* Navigation::avoidObstacleRight passes wallHugUntilClear this maxSteps.
HUG_MAX_STEPS == 30

\* One iteration of the loop of wallHugUntilClear on the distance d it
\* reads: the command it issues, if any, and whether it leaves the loop.
wallHugStep(d) ==
  IF d < DIST_WALL_HUG - 3
    THEN [cmds |-> <<CurveRight(SPEED_NORMAL)>>, brk |-> FALSE]
  ELSE IF d < DIST_WALL_HUG + 5 /\ d > 0
    THEN [cmds |-> <<Forward(SPEED_NORMAL)>>, brk |-> FALSE]
  ELSE IF d > DIST_WALL_HUG + 10 \/ d >= NO_ECHO
    THEN [cmds |-> <<>>, brk |-> TRUE]
  ELSE [cmds |-> <<>>, brk |-> FALSE]

\* avoidObstacleRight up to the call of wallHugUntilClear: stop, turn(90),
\* forward, turn(-90).
avoidApproach ==
  <<CmdStop>> \o turn(90).cmds \o <<Forward(SPEED_NORMAL)>> \o turn(-90).cmds

\* The return with its two turns exchanged.
avoidReturn_turnsSwapped ==
  <<CmdStop>> \o turn(90).cmds \o <<Forward(SPEED_NORMAL)>> \o turn(-90).cmds
    \o <<CmdStop>>

\* wallHugUntilClear that leaves the drive as its loop left it.
wallHugEnd_none == <<>>

\* The Motors::stop() that ends wallHugUntilClear, after its loop.
wallHugEnd == <<CmdStop>>

\* The end of wallHugUntilClear, then the rest of avoidObstacleRight:
\* turn(-90), forward, turn(90), stop.
avoidReturn ==
  wallHugEnd \o turn(-90).cmds \o <<Forward(SPEED_NORMAL)>> \o turn(90).cmds
    \o <<CmdStop>>

\* test_framework.cpp, the static initialisers: the four counters 0; no
\* operation followed yet.
NoTests ==
  [currentTest |-> 0, passed |-> 0, failed |-> 0, skipped |-> 0,
   returned |-> {}, ops |-> 0]

\* The counters after n assertions that passed since the last reset().
TestsPassed(n) ==
  [NoTests EXCEPT !.currentTest = n % UINT16_MOD, !.passed = n % UINT16_MOD]

\* The counters the operations of TestFramework are followed from: those of
\* the static initialisers, and those of a run of assertions, all passed,
\* that is two short of the range of uint16_t.
TestStarts ==
  IF prog = "tests" THEN {NoTests, TestsPassed(UINT16_MOD - 2)}
  ELSE {NoTests}

\* TestFramework::reset().
TestFramework_reset(t) ==
  [t EXCEPT !.currentTest = 0, !.passed = 0, !.failed = 0, !.skipped = 0,
            !.returned = {}]

\* What assert, assertEqual and assertRange do once their condition is
\* evaluated: currentTest++, then passed++ and true, or failed++ and false.
TestFramework_count(t, condition) ==
  IF condition
    THEN [t EXCEPT !.currentTest = (@ + 1) % UINT16_MOD,
                   !.passed = (@ + 1) % UINT16_MOD, !.returned = {TRUE}]
    ELSE [t EXCEPT !.currentTest = (@ + 1) % UINT16_MOD,
                   !.failed = (@ + 1) % UINT16_MOD, !.returned = {FALSE}]

\* TestFramework::assert(condition, ...).
TestFramework_assert(t, condition) == TestFramework_count(t, condition)

\* TestFramework::assertEqual(expected, actual, ...).
TestFramework_assertEqual(t, expected, actual) ==
  TestFramework_count(t, expected = actual)

\* TestFramework::assertRange(value, minVal, maxVal, ...).
TestFramework_assertRange(t, value, minVal, maxVal) ==
  TestFramework_count(t, value >= minVal /\ value <= maxVal)

\* TestFramework::skip(reason).
TestFramework_skip(t) ==
  [t EXCEPT !.currentTest = (@ + 1) % UINT16_MOD,
            !.skipped = (@ + 1) % UINT16_MOD, !.returned = {}]

\* servos.cpp, the static initialisers: clamp open, arm down; no operation
\* of Servos called on its own yet.
NoServoOps == [clamp |-> SERVO_CLAMP_OPEN, arm |-> SERVO_ARM_DOWN, ops |-> 0]

\* No Navigation::turn called on its own yet.
NoTurn == [degrees |-> 0, turnTime |-> 0]

\* No iteration of loop() made yet.
NoTick == [reads |-> 0, calls |-> 0, trans |-> 0]

\* No searchForLine is running.
NoSearch ==
  [target |-> "NONE", maxTime |-> 0, t |-> 0, seen |-> "NONE",
   found |-> FALSE]

\* The pivot of searchForLine that leaves searchDirection as it was.
searchPivot_sameWay(sd) ==
  [cmds |-> <<IF sd > 0 THEN TurnRight(SPEED_TURN)
                        ELSE TurnLeft(SPEED_TURN), CmdStop>>,
   searchDirection |-> sd]

\* What a pass of the loop of searchForLine does when the colour is not the
\* target: the pivot to the side of searchDirection, the stop after 200 ms,
\* searchDirection *= -1.
searchPivot(sd) ==
  [cmds |-> <<IF sd > 0 THEN TurnRight(SPEED_TURN)
                        ELSE TurnLeft(SPEED_TURN), CmdStop>>,
   searchDirection |-> -1 * sd]

(***************************************************************************)
(* The order of the drive commands of avoidObstacleRight, followed as the  *)
(* commands are issued.  Stops are skipped.  Stage 0: nothing yet;         *)
(* 1: pivot right; 2: then forward; 3: then pivot left (from here forward  *)
(* and curveRight belong to the wall-hug and are counted by the caller);   *)
(* 4: then pivot left; 5: then forward; 6: then pivot right; -1: any other *)
(* order.                                                                  *)
(***************************************************************************)
Observe(st, cmd) ==
  LET op == cmd[1]
  IN  IF op = "stop" THEN st
      ELSE IF st = 0 /\ op = "turnRight" THEN 1
      ELSE IF st = 1 /\ op = "forward" THEN 2
      ELSE IF st = 2 /\ op = "turnLeft" THEN 3
      ELSE IF st = 3 /\ op \in {"forward", "curveRight"} THEN 3
      ELSE IF st = 3 /\ op = "turnLeft" THEN 4
      ELSE IF st = 4 /\ op = "forward" THEN 5
      ELSE IF st = 5 /\ op = "turnRight" THEN 6
      ELSE -1

RECURSIVE ObserveAll(_, _)
ObserveAll(st, seq) ==
  IF seq = <<>> THEN st ELSE ObserveAll(Observe(st, Head(seq)), Tail(seq))

\* Number of commands of seq that are not stop.
RECURSIVE Moves(_)
Moves(seq) ==
  IF seq = <<>> THEN 0
  ELSE (IF Head(seq) = CmdStop THEN 0 ELSE 1) + Moves(Tail(seq))

AfterCmds(seq, drive) == IF seq = <<>> THEN drive ELSE Last(seq)

(***************************************************************************)
(* avoidObstacleRight, a blocking maneuver, in three kinds of steps: the   *)
(* approach, the iterations of the wall-hug loop, the return.  pc is       *)
(* "avoid" when the maneuver has been called, "hug" inside the loop of     *)
(* wallHugUntilClear, "hugged" when the loop has ended.                    *)
(***************************************************************************)
\* What the calls of one routine on its own follow.
testVars == <<turned, servo, tests>>

missionVars ==
  <<currentState, elapsed, checkElapsed, holding, obstacleCount,
    selSearchDir, selSearchAttempts, search, tick>>

AvoidApproach ==
  /\ pc = "avoid"
  /\ pc' = "hug"
  /\ hugI' = 0
  /\ hugMax' = HUG_MAX_STEPS
  /\ hugReads' = 0
  /\ cmds' = avoidApproach
  /\ lastDrive' = Last(avoidApproach)
  /\ avoidFirst' = Head(avoidApproach)
  /\ avoidObs' = ObserveAll(0, avoidApproach)
  /\ avoidHug' = 0
  /\ lastCall' = "avoidObstacleRight"
  /\ navResult' = ""
  /\ UNCHANGED <<prog, testVars, missionVars, sensors, searchCount,
                 searchDirection, target, run>>

\* for (uint8_t i = 0; i < maxSteps; i++) { ... delay(50); }
WallHugIterate ==
  /\ pc = "hug"
  /\ \/ /\ hugI < hugMax
        /\ hugReads' = hugReads + 1
        /\ \E d \in DistVals :
             LET r == wallHugStep(d)
             IN  /\ cmds' = r.cmds
                 /\ lastDrive' = AfterCmds(r.cmds, lastDrive)
                 /\ avoidObs' = ObserveAll(avoidObs, r.cmds)
                 /\ avoidHug' = avoidHug + Moves(r.cmds)
                 /\ IF r.brk THEN pc' = "hugged" /\ hugI' = hugI
                             ELSE pc' = "hug" /\ hugI' = hugI + 1
     \/ /\ hugI >= hugMax
        /\ pc' = "hugged"
        /\ UNCHANGED <<cmds, lastDrive, avoidObs, avoidHug, hugI, hugReads>>
  /\ UNCHANGED <<prog, testVars, missionVars, sensors, searchCount,
                 searchDirection, avoidFirst, target, run, lastCall, navResult,
                 hugMax>>

\* What the return part of the maneuver does to the drive and the observer;
\* the caller continues from there.
AvoidReturnEffects ==
  /\ cmds' = avoidReturn
  /\ lastDrive' = Last(avoidReturn)
  /\ avoidObs' = ObserveAll(avoidObs, avoidReturn)
  /\ navResult' = "NAV_CONTINUE"
  /\ UNCHANGED <<hugI, hugMax, hugReads, avoidHug, avoidFirst>>

(***************************************************************************)
(* The harness: one primitive called again and again, each call on a fresh *)
(* Sensors::readAll, with Navigation::reset() at any time in between.      *)
(***************************************************************************)
\* The target colours the sketches pass to followColorLine.
TargetColors == {"RED", "GREEN"}

\* The snapshots followBlackLine is called on: every distance and every
\* pair of line flags, over a colour, black and no colour.
LineInputs == {in \in Inputs : in.color \in {"NONE", "BLACK", "GREEN"}}

\* The snapshots the colour primitives are called on: every colour, with
\* and without an obstacle.
ColorInputs ==
  {in \in Inputs : in.distance \in {5, NO_ECHO} /\ ~in.left /\ ~in.right}

avoidVars == <<hugI, hugMax, hugReads, avoidObs, avoidHug, avoidFirst>>

NavReset ==
  /\ prog \in {"navColor", "navCenter"}
  /\ pc = "loop"
  /\ searchCount' = reset.searchCount
  /\ searchDirection' = reset.searchDirection
  /\ run' = 0
  /\ cmds' = <<>>
  /\ lastCall' = "reset"
  /\ navResult' = ""
  /\ UNCHANGED <<prog, testVars, pc, missionVars, sensors, lastDrive, avoidVars,
                 target>>

NavFollowBlack ==
  /\ prog = "navBlack"
  /\ pc = "loop"
  /\ \E in \in LineInputs :
       LET data == readAll(sensors, in)
           r == followBlackLine(data)
       IN  /\ sensors' = data
           /\ cmds' = r.cmds
           /\ lastDrive' = Last(r.cmds)
           /\ navResult' = r.result
  /\ lastCall' = "followBlackLine"
  /\ UNCHANGED <<prog, testVars, pc, missionVars, searchCount, searchDirection,
                 avoidVars, target, run>>

NavFollowColor ==
  /\ prog = "navColor"
  /\ pc = "loop"
  /\ \E in \in ColorInputs :
       LET data == readAll(sensors, in)
           r == followColorLine(data, target, searchCount)
           lost == ~data.obstacleDetected /\ data.detectedColor = "NONE"
       IN  /\ lost /\ run >= 0 => run < MaxRun
           /\ sensors' = data
           /\ cmds' = r.cmds
           /\ lastDrive' = Last(r.cmds)
           /\ navResult' = r.result
           /\ searchCount' = r.searchCount
           /\ run' = IF lost THEN (IF run >= 0 THEN run + 1 ELSE -1)
                     ELSE IF ~data.obstacleDetected
                             /\ data.detectedColor = target THEN 0
                     ELSE -1
  /\ lastCall' = "followColorLine"
  /\ UNCHANGED <<prog, testVars, pc, missionVars, searchDirection, avoidVars,
                 target>>

NavNavigateToCenter ==
  /\ prog = "navCenter"
  /\ pc = "loop"
  /\ \E in \in ColorInputs :
       LET data == readAll(sensors, in)
           r == navigateToCenter(data, searchCount, searchDirection)
           same == data.detectedColor = data.previousColor
       IN  /\ same /\ run >= 0 => run < MaxCenterRun
           /\ run' = IF same /\ run >= 0 THEN run + 1 ELSE -1
           /\ sensors' = data
           /\ cmds' = r.cmds
           /\ lastDrive' = Last(r.cmds)
           /\ navResult' = r.result
           /\ searchCount' = r.searchCount
           /\ searchDirection' = r.searchDirection
  /\ lastCall' = "navigateToCenter"
  /\ UNCHANGED <<prog, testVars, pc, missionVars, avoidVars, target>>

\* The call of avoidObstacleRight, with any drive command in effect.
NavAvoidCall ==
  /\ prog = "navAvoid"
  /\ pc = "loop"
  /\ pc' = "avoid"
  /\ cmds' = <<>>
  /\ lastDrive' \in {CmdStop, Forward(SPEED_SLOW), Forward(SPEED_NORMAL)}
  /\ lastCall' = "avoidObstacleRight"
  /\ navResult' = ""
  /\ hugI' = 0 /\ avoidObs' = 0 /\ avoidHug' = 0 /\ avoidFirst' = <<>>
  /\ hugMax' = 0 /\ hugReads' = 0
  /\ UNCHANGED <<prog, testVars, missionVars, sensors, searchCount,
                 searchDirection, target, run>>

\* The return part of avoidObstacleRight, back to the caller.
NavAvoidReturn ==
  /\ prog = "navAvoid"
  /\ pc = "hugged"
  /\ pc' = "loop"
  /\ AvoidReturnEffects
  /\ UNCHANGED <<prog, testVars, missionVars, sensors, searchCount,
                 searchDirection, target, run, lastCall>>

InitCommon ==
  /\ pc = "loop"
  /\ elapsed = 0
  /\ checkElapsed = -1
  /\ sensors = ZeroSensors
  /\ searchCount = reset.searchCount
  /\ searchDirection = reset.searchDirection
  /\ holding = FALSE
  /\ obstacleCount = 0
  /\ selSearchDir = -1
  /\ selSearchAttempts = 0
  /\ cmds = <<>>
  /\ lastDrive = CmdStop
  /\ navResult = ""
  /\ lastCall = ""
  /\ hugI = 0
  /\ hugMax = 0
  /\ hugReads = 0
  /\ avoidObs = 0
  /\ avoidHug = 0
  /\ avoidFirst = <<>>
  /\ search = NoSearch
  /\ tick = NoTick
  /\ turned = NoTurn
  /\ servo = NoServoOps
  /\ tests \in TestStarts
  /\ run = 0

InitNavColor ==
  /\ prog = "navColor"
  /\ currentState = "STATE_INIT"
  /\ target \in TargetColors
  /\ InitCommon

InitNavCenter ==
  /\ prog = "navCenter"
  /\ currentState = "STATE_INIT"
  /\ target = "GREEN"
  /\ InitCommon

InitNavAvoid ==
  /\ prog = "navAvoid"
  /\ currentState = "STATE_INIT"
  /\ target = "GREEN"
  /\ InitCommon

\* followBlackLine called with the search state left by earlier calls.
InitNavBlack ==
  /\ prog = "navBlack"
  /\ pc = "loop"
  /\ currentState = "STATE_INIT"
  /\ target = "GREEN"
  /\ elapsed = 0 /\ checkElapsed = -1
  /\ sensors = ZeroSensors
  /\ searchCount \in {0, 4}
  /\ searchDirection \in {1, -1}
  /\ holding = FALSE /\ obstacleCount = 0
  /\ selSearchDir = -1 /\ selSearchAttempts = 0
  /\ cmds = <<>> /\ lastDrive = CmdStop /\ navResult = "" /\ lastCall = ""
  /\ hugI = 0 /\ avoidObs = 0 /\ avoidHug = 0 /\ avoidFirst = <<>>
  /\ hugMax = 0 /\ hugReads = 0
  /\ search = NoSearch
  /\ tick = NoTick
  /\ turned = NoTurn
  /\ servo = NoServoOps
  /\ tests \in TestStarts
  /\ run = -1

NextNavColor == NavReset \/ NavFollowColor
NextNavCenter == NavReset \/ NavNavigateToCenter
NextNavAvoid ==
  \/ NavAvoidCall
  \/ (prog = "navAvoid" /\ AvoidApproach)
  \/ (prog = "navAvoid" /\ WallHugIterate)
  \/ NavAvoidReturn

(***************************************************************************)
(* The colour sensor test: readColorRaw and detectColor called again and   *)
(* again, in a build for a board with 16-bit int or one with 32-bit int.   *)
(***************************************************************************)
\* The width of int in the build that prog names.
IntBits == IF prog = "colorInt16" THEN 16 ELSE 32

colorRest ==
  <<prog, testVars, missionVars, searchCount, searchDirection, cmds, lastDrive,
    navResult, avoidVars, target, run>>

\* readColorRaw: the red photodiodes selected, the pulse measured.
ColorReadRed ==
  /\ prog \in {"colorInt16", "colorInt32"}
  /\ pc = "loop"
  /\ \E p \in PulseVals :
       sensors' = [sensors EXCEPT !.redFreq = readChannel(p)]
  /\ pc' = "green"
  /\ lastCall' = "readColorRaw"
  /\ UNCHANGED colorRest

\* readColorRaw: the green photodiodes.
ColorReadGreen ==
  /\ prog \in {"colorInt16", "colorInt32"}
  /\ pc = "green"
  /\ \E p \in PulseVals :
       sensors' = [sensors EXCEPT !.greenFreq = readChannel(p)]
  /\ pc' = "blue"
  /\ UNCHANGED <<colorRest, lastCall>>

\* readColorRaw: the blue photodiodes; then detectColor.
ColorReadBlue ==
  /\ prog \in {"colorInt16", "colorInt32"}
  /\ pc = "blue"
  /\ \E p \in PulseVals :
       sensors' = readColor([sensors EXCEPT !.blueFreq = readChannel(p)],
                           IntBits)
  /\ pc' = "loop"
  /\ lastCall' = "readColor"
  /\ UNCHANGED colorRest

\* readColor of a standalone sketch: the blue photodiodes read, the
\* timeout replaced, then the classification of the sketch.
SketchReadBlue ==
  /\ prog \in {"colorInt16", "colorInt32"}
  /\ pc = "blue"
  /\ \E p \in PulseVals :
       LET data == [sensors EXCEPT !.blueFreq = readChannel(p)]
       IN  sensors' = [data EXCEPT !.detectedColor =
                         TS_readColor(data.redFreq, data.greenFreq,
                                      data.blueFreq, IntBits)]
  /\ pc' = "loop"
  /\ lastCall' = "sketch readColor"
  /\ UNCHANGED colorRest

\* As InitCommon, the snapshot having its three frequencies.
InitColor ==
  /\ prog \in {"colorInt16", "colorInt32"}
  /\ currentState = "STATE_INIT"
  /\ target = "GREEN"
  /\ pc = "loop"
  /\ elapsed = 0 /\ checkElapsed = -1
  /\ sensors = ZeroColorData
  /\ searchCount = reset.searchCount
  /\ searchDirection = reset.searchDirection
  /\ holding = FALSE /\ obstacleCount = 0
  /\ selSearchDir = -1 /\ selSearchAttempts = 0
  /\ cmds = <<>> /\ lastDrive = CmdStop /\ navResult = "" /\ lastCall = ""
  /\ hugI = 0 /\ avoidObs = 0 /\ avoidHug = 0 /\ avoidFirst = <<>>
  /\ hugMax = 0 /\ hugReads = 0
  /\ search = NoSearch
  /\ tick = NoTick
  /\ turned = NoTurn
  /\ servo = NoServoOps
  /\ tests \in TestStarts
  /\ run = 0

NextColor == ColorReadRed \/ ColorReadGreen \/ ColorReadBlue

SpecColor == InitColor /\ [][NextColor]_vars

\* readColor of a standalone sketch called again and again.
NextSketchColor == ColorReadRed \/ ColorReadGreen \/ SketchReadBlue

SpecSketchColor == InitColor /\ [][NextSketchColor]_vars

(***************************************************************************)
(* The ultrasonic sensor test: readUltrasonic called again and again, on   *)
(* echoes of any duration up to the timeout.                               *)
(***************************************************************************)
\* The echo durations sampled: every one up to MaxNearDuration (the
\* obstacle threshold lies between 882 and 883 us), then every millisecond
\* up to the timeout.
Durations ==
  (0..MaxNearDuration) \cup {k * 1000 : k \in 1..(ULTRA_TIMEOUT_US \div 1000)}

UltraRead ==
  /\ prog = "ultra"
  /\ pc = "loop"
  /\ \E duration \in Durations :
       /\ sensors' = readUltrasonicEcho(sensors, duration)
       /\ run' = duration
  /\ lastCall' = "readUltrasonic"
  /\ UNCHANGED <<prog, testVars, pc, missionVars, searchCount, searchDirection,
                 cmds, lastDrive, navResult, avoidVars, target>>

InitUltra ==
  /\ prog = "ultra"
  /\ currentState = "STATE_INIT"
  /\ target = "GREEN"
  /\ InitCommon

SpecUltra == InitUltra /\ [][UltraRead]_vars

SpecNavBlack == InitNavBlack /\ [][NavFollowBlack]_vars
SpecNavColor == InitNavColor /\ [][NextNavColor]_vars
SpecNavCenter == InitNavCenter /\ [][NextNavCenter]_vars
SpecNavAvoid == InitNavAvoid /\ [][NextNavAvoid]_vars
\* avoidObstacleRight blocks: once called, its steps follow one another.
FairSpecNavAvoid == SpecNavAvoid /\ WF_vars(NextNavAvoid)

(***************************************************************************)
(* wallHugUntilClear called on its own, with any maxSteps and any drive    *)
(* command in effect.                                                      *)
(***************************************************************************)
\* The values of maxSteps it is called with: none, few, and the 30 that
\* avoidObstacleRight passes.
HugMaxSteps == {0, 1, 2, HUG_MAX_STEPS}

NavHugCall ==
  /\ prog = "navHug"
  /\ pc = "loop"
  /\ pc' = "hug"
  /\ hugMax' \in HugMaxSteps
  /\ hugI' = 0
  /\ hugReads' = 0
  /\ cmds' = <<>>
  /\ lastDrive' \in {CmdStop, Forward(SPEED_NORMAL), TurnLeft(SPEED_TURN)}
  /\ lastCall' = "wallHugUntilClear"
  /\ navResult' = ""
  /\ avoidObs' = 0 /\ avoidHug' = 0 /\ avoidFirst' = <<>>
  /\ UNCHANGED <<prog, testVars, missionVars, sensors, searchCount,
                 searchDirection, target, run>>

\* The end of wallHugUntilClear, back to the caller.
NavHugReturn ==
  /\ prog = "navHug"
  /\ pc = "hugged"
  /\ pc' = "loop"
  /\ cmds' = wallHugEnd
  /\ lastDrive' = AfterCmds(wallHugEnd, lastDrive)
  /\ UNCHANGED <<prog, testVars, missionVars, sensors, searchCount,
                 searchDirection, target, run, lastCall, navResult, avoidVars>>

InitNavHug ==
  /\ prog = "navHug"
  /\ currentState = "STATE_INIT"
  /\ target = "GREEN"
  /\ InitCommon

NextNavHug ==
  \/ NavHugCall
  \/ (prog = "navHug" /\ WallHugIterate)
  \/ NavHugReturn

SpecNavHug == InitNavHug /\ [][NextNavHug]_vars
\* The maneuver is not held up for ever.
FairSpecNavHug == SpecNavHug /\ WF_vars(NextNavHug)

(***************************************************************************)
(* The mission sketches.  One step is one iteration of loop(): readAll,    *)
(* the handler of the current state, the loop delay; the two blocking      *)
(* routines a handler can call, avoidObstacleRight and searchForLine, run  *)
(* in steps of their own, after which the handler resumes.  A handler is   *)
(* followed on a record o of what the iteration has done so far:           *)
(*   state, el (ms since stateStartTime), chk (the elapsed time its        *)
(*   timeout test compared, -1 if it made none), sensors, cmds, sc, sd     *)
(*   (the search state), res and call (the last primitive and its result), *)
(*   holding, oc (obstacleCount), selDir, selAtt (the statics of           *)
(*   SELECT_GREEN), search, pc.                                            *)
(***************************************************************************)
\* The states whose handler compares millis() - stateStartTime with a
\* budget, and the budget.
Budgets ==
  [ s1 |-> [STATE_TO_REUPLOAD |-> S1_REUPLOAD_TIMEOUT],
    s2 |-> [STATE_CLIMB_RAMP |-> TIMEOUT_RAMP,
            STATE_FIND_BALL |-> TIMEOUT_SEARCH,
            STATE_RETURN_RAMP |-> S2_RETURN_RAMP_TIMEOUT],
    s3 |-> [STATE_FIND_RED_LINE |-> S3_FIND_RED_TIMEOUT,
            STATE_PASS_REUPLOAD |-> S3_PASS_REUPLOAD_TIMEOUT,
            STATE_RETURN_INTERSECTION |-> S3_RETURN_INTERSECTION_TIMEOUT,
            STATE_FOLLOW_BLACK_HOME |-> TIMEOUT_RETURN],
    target |-> [STATE_CLIMB_RAMP |-> TS_RAMP_TIMEOUT,
                STATE_FIND_BALL |-> TS_FIND_BALL_TIMEOUT] ]

Timed(p, st) == st \in DOMAIN Budgets[p]

\* millis() - stateStartTime as the model keeps it between two iterations:
\* exact up to the budget of the state, one value for all times beyond it,
\* and not kept in a state whose handler never reads the clock.
Sat(p, st, t) ==
  IF ~Timed(p, st) THEN 0
  ELSE IF t > Budgets[p][st] THEN Budgets[p][st] + 1
  ELSE t

\* The comparison with a budget as a handler that keeps it one tick short
\* would make it.
TimedOut_early(t, budget) == t > budget - 200

\* millis() - stateStartTime > budget
TimedOut(t, budget) == t > budget

\* The snapshots a handler is run on: the colours cs, the distances ds, and
\* every pair of line flags if ln, else both sensors off the line.  A field
\* the handler does not read is given its "nothing seen" value.
Sample(cs, ds, ln) ==
  {in \in Inputs : /\ in.color \in cs
                   /\ in.distance \in ds
                   /\ ln \/ (~in.left /\ ~in.right)}

\* loop(): Sensors::readAll(sensors), taking rc ms.
Begin(in, rc) ==
  [ state |-> currentState, el |-> elapsed + rc, chk |-> -1,
    sensors |-> readAll(sensors, in), cmds |-> <<>>,
    sc |-> searchCount, sd |-> searchDirection, res |-> "", call |-> "",
    holding |-> holding, oc |-> obstacleCount,
    selDir |-> selSearchDir, selAtt |-> selSearchAttempts,
    search |-> NoSearch, pc |-> "loop", reads |-> 1, calls |-> 0,
    trans |-> 0 ]

\* The handler as it stands when a blocking routine it called returns.
Resume ==
  [ state |-> currentState, el |-> elapsed, chk |-> checkElapsed,
    sensors |-> sensors, cmds |-> <<>>,
    sc |-> searchCount, sd |-> searchDirection,
    res |-> navResult, call |-> lastCall,
    holding |-> holding, oc |-> obstacleCount,
    selDir |-> selSearchDir, selAtt |-> selSearchAttempts,
    search |-> NoSearch, pc |-> "loop", reads |-> tick.reads,
    calls |-> tick.calls, trans |-> tick.trans ]

\* transitionTo(newState): currentState, stateStartTime = millis(),
\* Navigation::reset().
transitionTo(o, newState) ==
  [o EXCEPT !.state = newState, !.el = 0, !.trans = @ + 1,
            !.sc = reset.searchCount, !.sd = reset.searchDirection]

\* Motors::forward, stop, ...: the commands of seq, in order.
Drive(o, seq) == [o EXCEPT !.cmds = @ \o seq]
\* delay(ms)
Delay(o, ms) == [o EXCEPT !.el = @ + ms]
\* The handler reads millis() - stateStartTime.
Check(o) == [o EXCEPT !.chk = o.el]

CallFollowBlackLine(o) ==
  LET r == followBlackLine(o.sensors)
  IN  [o EXCEPT !.cmds = @ \o r.cmds, !.res = r.result,
                !.call = "followBlackLine", !.calls = @ + 1]

CallFollowColorLine(o, targetColor) ==
  LET r == followColorLine(o.sensors, targetColor, o.sc)
  IN  [o EXCEPT !.cmds = @ \o r.cmds, !.res = r.result,
                !.sc = r.searchCount, !.call = "followColorLine",
                !.calls = @ + 1]

CallNavigateToCenter(o) ==
  LET r == navigateToCenter(o.sensors, o.sc, o.sd)
  IN  [o EXCEPT !.cmds = @ \o r.cmds, !.res = r.result,
                !.sc = r.searchCount, !.sd = r.searchDirection,
                !.el = @ + r.cost, !.call = "navigateToCenter",
                !.calls = @ + 1]

\* Navigation::turn(degrees) taking tc ms, tc one of turn(degrees).costs.
CallTurn(o, degrees, tc) ==
  [o EXCEPT !.cmds = @ \o turn(degrees).cmds, !.el = @ + tc,
            !.calls = @ + 1]

\* Navigation::searchForLine(targetColor, maxTime) is entered.
CallSearchForLine(o, targetColor, maxTime) ==
  [o EXCEPT !.pc = "search", !.call = "searchForLine", !.calls = @ + 1,
            !.search = [target |-> targetColor, maxTime |-> maxTime,
                        t |-> 0, seen |-> "NONE", found |-> FALSE]]

\* Navigation::avoidObstacleRight() is entered.
CallAvoidObstacleRight(o) ==
  [o EXCEPT !.pc = "avoid", !.call = "avoidObstacleRight",
            !.calls = @ + 1]

\* A second Sensors::readAll(sensors) inside a handler.
ReadAgain(o, in, rc) ==
  [o EXCEPT !.sensors = readAll(o.sensors, in), !.el = @ + rc,
            !.reads = @ + 1]

\* pickup that leaves the flag as it was.
pickup_noFlag(o) == o

\* Servos::pickup(), Servos::drop(): the arm sequence, then the flag.
pickup(o) == [o EXCEPT !.holding = TRUE]
drop(o) == [o EXCEPT !.holding = FALSE]

\* The "no colour, no obstacle" reading is given to a state that follows a
\* colour line at most MaxLost times in a row.
LostOK(in) ==
  (in.color = "NONE" /\ ~readUltrasonic(in.distance)) => searchCount < MaxLost

\* The end of the iteration, or the entry of a blocking routine: the
\* variables take what the handler has done; delay(TIME_LOOP_DELAY).
Commit(o) ==
  \E c \in {o} :  \* what the handler has done, worked out once
    /\ currentState' = c.state
    /\ elapsed' = Sat(prog, c.state, c.el + TIME_LOOP_DELAY)
    /\ checkElapsed' = IF c.chk < 0 THEN -1 ELSE Sat(prog, currentState, c.chk)
    /\ sensors' = c.sensors
    /\ cmds' = c.cmds
    /\ lastDrive' = AfterCmds(c.cmds, lastDrive)
    /\ searchCount' = c.sc
    /\ searchDirection' = c.sd
    /\ navResult' = c.res
    /\ lastCall' = c.call
    /\ holding' = c.holding
    /\ obstacleCount' = c.oc
    /\ selSearchDir' = c.selDir
    /\ selSearchAttempts' = c.selAtt
    /\ search' = c.search
    /\ tick' = [reads |-> c.reads, calls |-> c.calls, trans |-> c.trans]
    /\ pc' = c.pc
    /\ hugI' = 0 /\ avoidObs' = 0 /\ avoidHug' = 0 /\ avoidFirst' = <<>>
    /\ hugMax' = 0 /\ hugReads' = 0
    /\ UNCHANGED <<prog, testVars, target, run>>

\* The colours the local snapshot of searchForLine is sampled at.  The loop
\* compares the colour with the target and does nothing else with it: the
\* sketches are run on the target and on no colour, the call on its own on
\* every colour.
SearchColors ==
  IF prog = "navSearch" THEN Colors ELSE {search.target, "NONE"}

\* One pass of the loop of searchForLine: the test of the time spent, the
\* local snapshot (of which the colour is used), and either the return or
\* the pivot, the 200 ms, the stop and the change of direction.
SearchIterate ==
  /\ pc = "search"
  /\ IF ~(search.t < search.maxTime)
       THEN /\ pc' = "searched"
            /\ search' = [search EXCEPT !.found = FALSE]
            /\ cmds' = <<>>
            /\ UNCHANGED <<lastDrive, searchDirection>>
       ELSE \E c \in SearchColors, rc \in ReadCosts :
              IF c = search.target
                THEN /\ pc' = "searched"
                     /\ search' = [search EXCEPT !.found = TRUE,
                                                 !.seen = c, !.t = @ + rc]
                     /\ cmds' = <<>>
                     /\ UNCHANGED <<lastDrive, searchDirection>>
                ELSE /\ pc' = "search"
                     /\ search' = [search EXCEPT !.seen = c,
                                                 !.t = @ + rc + 200]
                     /\ cmds' = searchPivot(searchDirection).cmds
                     /\ lastDrive' = Last(searchPivot(searchDirection).cmds)
                     /\ searchDirection' =
                          searchPivot(searchDirection).searchDirection
  /\ UNCHANGED <<prog, testVars, currentState, elapsed, checkElapsed, sensors,
                 searchCount, holding, obstacleCount, selSearchDir,
                 selSearchAttempts, navResult, lastCall, avoidVars, tick,
                 target, run>>

(***************************************************************************)
(* searchForLine called on its own, with any target, any maxTime and any   *)
(* drive command in effect, searchDirection being what the calls before    *)
(* have left.                                                              *)
(***************************************************************************)
\* The values of maxTime it is called with: none, and the two the sketches
\* pass.
SearchMaxTimes == {0, 1000, 2000}

NavSearchCall ==
  /\ prog = "navSearch"
  /\ pc = "loop"
  /\ pc' = "search"
  /\ \E targetColor \in {"RED", "BLUE"}, maxTime \in SearchMaxTimes :
       search' = [target |-> targetColor, maxTime |-> maxTime, t |-> 0,
                  seen |-> "NONE", found |-> FALSE]
  /\ cmds' = <<>>
  /\ lastDrive' \in {CmdStop, Forward(SPEED_NORMAL), Forward(SPEED_SLOW)}
  /\ lastCall' = "searchForLine"
  /\ navResult' = ""
  /\ UNCHANGED <<prog, testVars, currentState, elapsed, checkElapsed, sensors,
                 searchCount, searchDirection, holding, obstacleCount,
                 selSearchDir, selSearchAttempts, avoidVars, tick, target,
                 run>>

\* return true; return false;
NavSearchReturn ==
  /\ prog = "navSearch"
  /\ pc = "searched"
  /\ pc' = "loop"
  /\ navResult' = IF search.found THEN "true" ELSE "false"
  /\ cmds' = <<>>
  /\ UNCHANGED <<prog, testVars, missionVars, sensors, searchCount,
                 searchDirection, lastDrive, lastCall, avoidVars, target, run>>

InitNavSearch ==
  /\ prog = "navSearch"
  /\ currentState = "STATE_INIT"
  /\ target = "GREEN"
  /\ InitCommon

NextNavSearch ==
  \/ NavSearchCall
  \/ (prog = "navSearch" /\ SearchIterate)
  \/ NavSearchReturn

SpecNavSearch == InitNavSearch /\ [][NextNavSearch]_vars
\* The search is not held up for ever.
FairSpecNavSearch == SpecNavSearch /\ WF_vars(NextNavSearch)

(***************************************************************************)
(* Navigation::turn called on its own, with any number of degrees.         *)
(***************************************************************************)
\* The degrees it is called with, to either side.
MaxDegrees == 180
TurnDegrees == (0 - MaxDegrees)..MaxDegrees

NavTurn ==
  /\ prog = "navTurn"
  /\ pc = "loop"
  /\ \E degrees \in TurnDegrees : \E turnTime \in turnTimes(degrees) :
       /\ turned' = [degrees |-> degrees, turnTime |-> turnTime]
       /\ cmds' = turn(degrees).cmds
       /\ lastDrive' = Last(turn(degrees).cmds)
  /\ lastCall' = "turn"
  /\ UNCHANGED <<prog, pc, servo, tests, missionVars, sensors, searchCount,
                 searchDirection, navResult, avoidVars, target, run>>

InitNavTurn ==
  /\ prog = "navTurn"
  /\ currentState = "STATE_INIT"
  /\ target = "GREEN"
  /\ InitCommon

SpecNavTurn == InitNavTurn /\ [][NavTurn]_vars

(***************************************************************************)
(* servos.cpp: the operations of Servos on what it tracks (currentClampAngle, *)
(* currentArmAngle, holding), called one after another in any order.      *)
(***************************************************************************)
Servos_init ==
  [clamp |-> SERVO_CLAMP_OPEN, arm |-> SERVO_ARM_DOWN, holding |-> FALSE]
Servos_openClamp(s) == [s EXCEPT !.clamp = SERVO_CLAMP_OPEN]
Servos_closeClamp(s) == [s EXCEPT !.clamp = SERVO_CLAMP_CLOSED]
Servos_armUp(s) == [s EXCEPT !.arm = SERVO_ARM_UP]
Servos_armDown(s) == [s EXCEPT !.arm = SERVO_ARM_DOWN]
Servos_armCarry(s) == [s EXCEPT !.arm = SERVO_ARM_CARRY]
\* armDown, closeClamp, armCarry, holding = true.
Servos_pickup(s) ==
  [Servos_armCarry(Servos_closeClamp(Servos_armDown(s)))
     EXCEPT !.holding = TRUE]
\* armDown, openClamp, armCarry, holding = false.
Servos_drop(s) ==
  [Servos_armCarry(Servos_openClamp(Servos_armDown(s)))
     EXCEPT !.holding = FALSE]
\* armDown, the flick, currentArmAngle = SERVO_ARM_UP.
Servos_launch(s) == [Servos_armDown(s) EXCEPT !.arm = SERVO_ARM_UP]
Servos_isHolding(s) == s.holding

ServoOps ==
  {"init", "openClamp", "closeClamp", "armUp", "armDown", "armCarry",
   "pickup", "drop", "launch"}

ServosApply(op, s) ==
  CASE op = "init" -> Servos_init
    [] op = "openClamp" -> Servos_openClamp(s)
    [] op = "closeClamp" -> Servos_closeClamp(s)
    [] op = "armUp" -> Servos_armUp(s)
    [] op = "armDown" -> Servos_armDown(s)
    [] op = "armCarry" -> Servos_armCarry(s)
    [] op = "pickup" -> Servos_pickup(s)
    [] op = "drop" -> Servos_drop(s)
    [] op = "launch" -> Servos_launch(s)

\* One operation of Servos, the sequence being of MaxServoOps at most.
ServoOp ==
  /\ prog = "servos"
  /\ pc = "loop"
  /\ servo.ops < MaxServoOps
  /\ \E op \in ServoOps :
       LET s == ServosApply(op, [clamp |-> servo.clamp, arm |-> servo.arm,
                                 holding |-> holding])
       IN  /\ servo' = [clamp |-> s.clamp, arm |-> s.arm,
                        ops |-> servo.ops + 1]
           /\ holding' = s.holding
           /\ lastCall' = op
  /\ UNCHANGED <<prog, pc, turned, tests, currentState, elapsed,
                 checkElapsed, obstacleCount, selSearchDir,
                 selSearchAttempts, search, tick, sensors, searchCount, searchDirection, cmds,
                 lastDrive, navResult, avoidVars, target, run>>

\* The static initialisers of servos.cpp.
InitServos ==
  /\ prog = "servos"
  /\ currentState = "STATE_INIT"
  /\ target = "GREEN"
  /\ InitCommon

SpecServos == InitServos /\ [][ServoOp]_vars

(***************************************************************************)
(* The operations of TestFramework called in any order, MaxTestOps of them *)
(* at most.                                                                *)
(***************************************************************************)
\* The values assertEqual and assertRange are called on.
TestVals == 0..2

\* What an operation of TestFramework leaves alone.
testRest ==
  <<prog, pc, turned, servo, missionVars, sensors, searchCount,
    searchDirection, cmds, lastDrive, navResult, avoidVars, target, run>>

\* The operation op of TestFramework has taken the counters to t.
TestDone(op, t) ==
  /\ prog = "tests"
  /\ pc = "loop"
  /\ tests.ops < MaxTestOps
  /\ tests' = [t EXCEPT !.ops = tests.ops + 1]
  /\ lastCall' = op
  /\ UNCHANGED testRest

TestAssert ==
  \E condition \in BOOLEAN :
    TestDone("assert", TestFramework_assert(tests, condition))

TestAssertEqual ==
  \E expected \in TestVals : \E actual \in TestVals :
    TestDone("assertEqual",
             TestFramework_assertEqual(tests, expected, actual))

TestAssertRange ==
  \E value \in TestVals : \E minVal \in TestVals : \E maxVal \in TestVals :
    TestDone("assertRange",
             TestFramework_assertRange(tests, value, minVal, maxVal))

TestSkip == TestDone("skip", TestFramework_skip(tests))

TestReset == TestDone("reset", TestFramework_reset(tests))

InitTests ==
  /\ prog = "tests"
  /\ currentState = "STATE_INIT"
  /\ target = "GREEN"
  /\ InitCommon

NextTests ==
  TestAssert \/ TestAssertEqual \/ TestAssertRange \/ TestSkip \/ TestReset

SpecTests == InitTests /\ [][NextTests]_vars

\* The distances the mission handlers are run on: within pickup range, an
\* obstacle beyond it, the obstacle threshold, a ball in range that is no
\* obstacle, the ball threshold, and no echo.
NearDists == {5, 10, 15, 18, 20, NO_ECHO}
\* The distances around the box: within pickup range, at its limit, an
\* obstacle beyond it, the obstacle threshold, and no echo.
BoxDists == {3, 5, 10, 15, NO_ECHO}
\* The distances for a handler that reads obstacleDetected only.
ObstacleDists == {10, NO_ECHO}
\* The colours a timed state that follows a line of targetColor is run on:
\* the three cases followColorLine tells apart.
FollowColors(targetColor) == {targetColor, "NONE", "BLACK"}

(***************************************************************************)
(* section1.ino                                                            *)
(***************************************************************************)
S1(st) == prog = "s1" /\ pc = "loop" /\ currentState = st

S1_FOLLOW_BLACK ==
  /\ S1("STATE_FOLLOW_BLACK")
  /\ \E in \in Sample({"NONE", "BLACK"}, BoxDists, TRUE), rc \in ReadCosts :
       LET o == CallFollowBlackLine(Begin(in, rc))
       IN  Commit(IF o.res = "NAV_OBSTACLE"
                     /\ o.sensors.distance < DIST_BOX_PICKUP + 10
                    THEN transitionTo(o, "STATE_APPROACH_BOX")
                    ELSE o)

\* APPROACH_BOX that stops short of the pickup distance only.
S1_APPROACH_BOX_strict ==
  /\ S1("STATE_APPROACH_BOX")
  /\ \E in \in Sample({"NONE"}, BoxDists, FALSE), rc \in ReadCosts :
       LET o == Begin(in, rc)
       IN  Commit(IF o.sensors.distance < DIST_BOX_PICKUP
                    THEN transitionTo(Drive(o, <<CmdStop>>), "STATE_PICKUP")
                    ELSE Drive(o, <<Forward(SPEED_SLOW)>>))

S1_APPROACH_BOX ==
  /\ S1("STATE_APPROACH_BOX")
  /\ \E in \in Sample({"NONE"}, BoxDists, FALSE), rc \in ReadCosts :
       LET o == Begin(in, rc)
       IN  Commit(IF o.sensors.distance <= DIST_BOX_PICKUP
                    THEN transitionTo(Drive(o, <<CmdStop>>), "STATE_PICKUP")
                    ELSE Drive(o, <<Forward(SPEED_SLOW)>>))

S1_PICKUP ==
  /\ S1("STATE_PICKUP")
  /\ \E in \in Sample({"NONE"}, {5}, FALSE), rc \in ReadCosts :
       LET o == pickup(Begin(in, rc))
       IN  Commit(IF o.holding
                    THEN transitionTo(o, "STATE_FIND_INTERSECTION")
                    ELSE o)

S1_FIND_INTERSECTION ==
  /\ S1("STATE_FIND_INTERSECTION")
  /\ \E in \in Sample(Colors, ObstacleDists, TRUE), rc \in ReadCosts :
       LET o == CallFollowBlackLine(Begin(in, rc))
       IN  Commit(IF o.sensors.detectedColor \in {"GREEN", "RED"}
                    THEN transitionTo(Drive(o, <<CmdStop>>),
                                      "STATE_SELECT_GREEN")
                    ELSE o)

\* SELECT_GREEN that turns to the same side at every attempt.
S1_SELECT_GREEN_sameSide ==
  /\ S1("STATE_SELECT_GREEN")
  /\ \E in \in Sample(Colors, {NO_ECHO}, FALSE), rc \in ReadCosts :
       LET o == Begin(in, rc)
       IN  IF o.sensors.detectedColor = "GREEN"
             THEN Commit(transitionTo(o, "STATE_FOLLOW_GREEN"))
           ELSE IF o.selAtt < 4
             THEN \E tc \in turn(45 * o.selDir).costs,
                     in2 \in Sample(Colors, {NO_ECHO}, FALSE),
                     rc2 \in ReadCosts :
                    LET o2 == ReadAgain(CallTurn(o, 45 * o.selDir, tc),
                                        in2, rc2)
                    IN  Commit(IF o2.sensors.detectedColor = "GREEN"
                                 THEN [transitionTo(o2, "STATE_FOLLOW_GREEN")
                                         EXCEPT !.selAtt = 0, !.selDir = -1]
                                 ELSE [o2 EXCEPT
                                         !.selAtt = (@ + 1) % UINT8_MOD])
           ELSE Commit([transitionTo(o, "STATE_FOLLOW_GREEN")
                          EXCEPT !.selAtt = 0])

S1_SELECT_GREEN ==
  /\ S1("STATE_SELECT_GREEN")
  /\ \E in \in Sample(Colors, {NO_ECHO}, FALSE), rc \in ReadCosts :
       LET o == Begin(in, rc)
       IN  IF o.sensors.detectedColor = "GREEN"
             THEN Commit(transitionTo(o, "STATE_FOLLOW_GREEN"))
           ELSE IF o.selAtt < 4
             THEN \E tc \in turn(45 * o.selDir).costs,
                     in2 \in Sample(Colors, {NO_ECHO}, FALSE),
                     rc2 \in ReadCosts :
                    LET o2 == ReadAgain(CallTurn(o, 45 * o.selDir, tc),
                                        in2, rc2)
                    IN  Commit(IF o2.sensors.detectedColor = "GREEN"
                                 THEN [transitionTo(o2, "STATE_FOLLOW_GREEN")
                                         EXCEPT !.selAtt = 0, !.selDir = -1]
                                 ELSE [o2 EXCEPT
                                         !.selDir = -1 * @,
                                         !.selAtt = (@ + 1) % UINT8_MOD])
           ELSE Commit([transitionTo(o, "STATE_FOLLOW_GREEN")
                          EXCEPT !.selAtt = 0])

\* FOLLOW_GREEN that takes a lost line for the blue zone.
S1_FOLLOW_GREEN_lostIsBlue ==
  /\ S1("STATE_FOLLOW_GREEN")
  /\ \E in \in Sample(Colors, ObstacleDists, FALSE), rc \in ReadCosts :
       /\ LostOK(in)
       /\ LET o == CallFollowColorLine(Begin(in, rc), "GREEN")
          IN  Commit(IF o.sensors.detectedColor = "BLUE"
                        \/ o.res = "NAV_LOST"
                       THEN transitionTo(o, "STATE_APPROACH_BLUE")
                       ELSE o)

S1_FOLLOW_GREEN ==
  /\ S1("STATE_FOLLOW_GREEN")
  /\ \E in \in Sample(Colors, ObstacleDists, FALSE), rc \in ReadCosts :
       /\ LostOK(in)
       /\ LET o == CallFollowColorLine(Begin(in, rc), "GREEN")
              o2 == IF o.sensors.detectedColor = "BLUE"
                      THEN transitionTo(o, "STATE_APPROACH_BLUE")
                      ELSE o
          IN  Commit(IF o2.res = "NAV_LOST"
                       THEN CallSearchForLine(o2, "GREEN", 1000)
                       ELSE o2)

\* searchForLine has returned: the handler ends.
S1_FOLLOW_GREEN_searched ==
  /\ prog = "s1" /\ pc = "searched" /\ currentState = "STATE_FOLLOW_GREEN"
  /\ Commit(Resume)

S1_APPROACH_BLUE ==
  /\ S1("STATE_APPROACH_BLUE")
  /\ \E in \in Sample({"NONE", "BLUE"}, {NO_ECHO}, FALSE), rc \in ReadCosts :
       Commit(transitionTo(
                Drive(Delay(Drive(Begin(in, rc), <<Forward(SPEED_SLOW)>>),
                            500),
                      <<CmdStop>>),
                "STATE_DROP"))

S1_DROP ==
  /\ S1("STATE_DROP")
  /\ \E in \in Sample({"NONE", "BLUE"}, {NO_ECHO}, FALSE), rc \in ReadCosts :
       LET o == drop(Begin(in, rc))
       IN  Commit(IF ~o.holding
                    THEN transitionTo(o, "STATE_TO_REUPLOAD")
                    ELSE o)

\* TO_REUPLOAD that goes on to COMPLETE without stopping the drive.
S1_TO_REUPLOAD_driving ==
  /\ S1("STATE_TO_REUPLOAD")
  /\ \E in \in Sample(FollowColors("GREEN"), ObstacleDists, FALSE),
        rc \in ReadCosts :
       /\ LostOK(in)
       /\ LET o == Check(CallFollowColorLine(Begin(in, rc), "GREEN"))
          IN  Commit(IF TimedOut(o.chk, S1_REUPLOAD_TIMEOUT)
                       THEN transitionTo(o, "STATE_COMPLETE")
                       ELSE o)

S1_TO_REUPLOAD ==
  /\ S1("STATE_TO_REUPLOAD")
  /\ \E in \in Sample(FollowColors("GREEN"), ObstacleDists, FALSE),
        rc \in ReadCosts :
       /\ LostOK(in)
       /\ LET o == Check(CallFollowColorLine(Begin(in, rc), "GREEN"))
          IN  Commit(IF TimedOut(o.chk, S1_REUPLOAD_TIMEOUT)
                       THEN transitionTo(Drive(o, <<CmdStop>>),
                                         "STATE_COMPLETE")
                       ELSE o)

\* Motors::stop(), then while (true) delay(1000).
S1_COMPLETE ==
  /\ S1("STATE_COMPLETE")
  /\ \E in \in Sample({"NONE"}, {NO_ECHO}, FALSE), rc \in ReadCosts :
       Commit([Drive(Begin(in, rc), <<CmdStop>>) EXCEPT !.pc = "halted"])

NextS1 ==
  \/ S1_FOLLOW_BLACK
  \/ S1_APPROACH_BOX
  \/ S1_PICKUP
  \/ S1_FIND_INTERSECTION
  \/ S1_SELECT_GREEN
  \/ S1_FOLLOW_GREEN
  \/ (prog = "s1" /\ SearchIterate)
  \/ S1_FOLLOW_GREEN_searched
  \/ S1_APPROACH_BLUE
  \/ S1_DROP
  \/ S1_TO_REUPLOAD
  \/ S1_COMPLETE

\* setup(): the subsystems initialised, then transitionTo(STATE_FOLLOW_BLACK).
InitS1 ==
  /\ prog = "s1"
  /\ currentState = "STATE_FOLLOW_BLACK"
  /\ target = "GREEN"
  /\ InitCommon

SpecS1 == InitS1 /\ [][NextS1]_vars

(***************************************************************************)
(* section2.ino                                                            *)
(***************************************************************************)
S2(st) == prog = "s2" /\ pc = "loop" /\ currentState = st

S2_CLIMB_RAMP ==
  /\ S2("STATE_CLIMB_RAMP")
  /\ \E in \in Sample(Colors, {NO_ECHO}, FALSE), rc \in ReadCosts :
       LET o == Drive(Begin(in, rc), <<Forward(SPEED_FAST)>>)
           o2 == IF o.sensors.detectedColor \notin {"NONE", "WHITE"}
                   THEN transitionTo(Drive(o, <<CmdStop>>), "STATE_ON_TARGET")
                   ELSE o
           o3 == Check(o2)
       IN  Commit(IF TimedOut(o3.chk, TIMEOUT_RAMP)
                    THEN transitionTo(Drive(o3, <<CmdStop>>),
                                      "STATE_ON_TARGET")
                    ELSE o3)

S2_ON_TARGET ==
  /\ S2("STATE_ON_TARGET")
  /\ \E in \in Sample(Colors, {NO_ECHO}, FALSE), rc \in ReadCosts :
       LET o == Begin(in, rc)
           c == o.sensors.detectedColor
       IN  Commit(IF c = "BLUE" THEN transitionTo(o, "STATE_NAV_BLUE")
                  ELSE IF c = "RED" THEN transitionTo(o, "STATE_NAV_RED")
                  ELSE IF c = "GREEN" THEN transitionTo(o, "STATE_NAV_GREEN")
                  ELSE IF c = "BLACK"
                    THEN transitionTo(o, "STATE_REACH_CENTER")
                  ELSE Drive(Delay(Drive(o, <<Forward(SPEED_SLOW)>>), 200),
                             <<CmdStop>>))

S2_NAV_BLUE ==
  /\ S2("STATE_NAV_BLUE")
  /\ \E in \in Sample(Colors, ObstacleDists, FALSE), rc \in ReadCosts :
       LET o == CallNavigateToCenter(Begin(in, rc))
           c == o.sensors.detectedColor
       IN  Commit(IF o.res = "NAV_TARGET_FOUND"
                    THEN IF c = "RED" THEN transitionTo(o, "STATE_NAV_RED")
                         ELSE IF c = "GREEN"
                           THEN transitionTo(o, "STATE_NAV_GREEN")
                         ELSE IF c = "BLACK"
                           THEN transitionTo(o, "STATE_REACH_CENTER")
                         ELSE o
                    ELSE o)

\* NAV_RED that follows the colour outward as well: back to NAV_BLUE on BLUE.
S2_NAV_RED_outward ==
  /\ S2("STATE_NAV_RED")
  /\ \E in \in Sample(Colors, ObstacleDists, FALSE), rc \in ReadCosts :
       LET o == CallNavigateToCenter(Begin(in, rc))
           c == o.sensors.detectedColor
       IN  Commit(IF o.res = "NAV_TARGET_FOUND"
                    THEN IF c = "GREEN"
                           THEN transitionTo(o, "STATE_NAV_GREEN")
                         ELSE IF c = "BLACK"
                           THEN transitionTo(o, "STATE_REACH_CENTER")
                         ELSE IF c = "BLUE"
                           THEN transitionTo(o, "STATE_NAV_BLUE")
                         ELSE o
                    ELSE o)

S2_NAV_RED ==
  /\ S2("STATE_NAV_RED")
  /\ \E in \in Sample(Colors, ObstacleDists, FALSE), rc \in ReadCosts :
       LET o == CallNavigateToCenter(Begin(in, rc))
           c == o.sensors.detectedColor
       IN  Commit(IF o.res = "NAV_TARGET_FOUND"
                    THEN IF c = "GREEN"
                           THEN transitionTo(o, "STATE_NAV_GREEN")
                         ELSE IF c = "BLACK"
                           THEN transitionTo(o, "STATE_REACH_CENTER")
                         ELSE o
                    ELSE o)

S2_NAV_GREEN ==
  /\ S2("STATE_NAV_GREEN")
  /\ \E in \in Sample(Colors, ObstacleDists, FALSE), rc \in ReadCosts :
       LET o == CallNavigateToCenter(Begin(in, rc))
       IN  Commit(IF o.res = "NAV_TARGET_FOUND"
                     /\ o.sensors.detectedColor = "BLACK"
                    THEN transitionTo(o, "STATE_REACH_CENTER")
                    ELSE o)

S2_REACH_CENTER ==
  /\ S2("STATE_REACH_CENTER")
  /\ \E in \in Sample({"NONE", "BLACK"}, {NO_ECHO}, FALSE), rc \in ReadCosts :
       Commit(transitionTo(Delay(Drive(Begin(in, rc), <<CmdStop>>), 300),
                           "STATE_FIND_BALL"))

S2_FIND_BALL ==
  /\ S2("STATE_FIND_BALL")
  /\ \E in \in Sample({"NONE", "BLACK"}, NearDists, FALSE), rc \in ReadCosts :
       LET o == Begin(in, rc)
       IN  IF o.sensors.distance < DIST_BALL_DETECT /\ o.sensors.distance > 0
             THEN Commit(transitionTo(o, "STATE_SHOOT"))
             ELSE LET o2 == Check(Drive(Delay(Drive(o,
                                 <<Forward(SPEED_SLOW)>>), 200), <<CmdStop>>))
                  IN  Commit(IF TimedOut(o2.chk, TIMEOUT_SEARCH)
                               THEN transitionTo(o2, "STATE_SHOOT")
                               ELSE o2)

\* The push, Servos::launch() (the arm, holding untouched), the wait.
S2_SHOOT ==
  /\ S2("STATE_SHOOT")
  /\ \E in \in Sample({"NONE"}, {NO_ECHO}, FALSE), rc \in ReadCosts :
       Commit(transitionTo(
                Delay(Drive(Delay(Drive(Begin(in, rc),
                                        <<Forward(SPEED_FAST)>>), 400),
                            <<CmdStop>>),
                      600 + 100 + 1000),
                "STATE_RETURN_RAMP"))

S2_RETURN_RAMP ==
  /\ S2("STATE_RETURN_RAMP")
  /\ \E in \in Sample({"NONE"}, {NO_ECHO}, FALSE), rc \in ReadCosts,
        tc \in turn(180).costs :
       LET o == Check(Drive(CallTurn(Begin(in, rc), 180, tc),
                            <<Forward(SPEED_NORMAL)>>))
       IN  Commit(IF TimedOut(o.chk, S2_RETURN_RAMP_TIMEOUT)
                    THEN transitionTo(Drive(o, <<CmdStop>>),
                                      "STATE_TO_REUPLOAD")
                    ELSE o)

S2_TO_REUPLOAD ==
  /\ S2("STATE_TO_REUPLOAD")
  /\ \E in \in Sample({"NONE"}, {NO_ECHO}, FALSE), rc \in ReadCosts :
       Commit(transitionTo(Drive(Begin(in, rc), <<CmdStop>>),
                           "STATE_COMPLETE"))

S2_COMPLETE ==
  /\ S2("STATE_COMPLETE")
  /\ \E in \in Sample({"NONE"}, {NO_ECHO}, FALSE), rc \in ReadCosts :
       Commit([Drive(Begin(in, rc), <<CmdStop>>) EXCEPT !.pc = "halted"])

NextS2 ==
  \/ S2_CLIMB_RAMP
  \/ S2_ON_TARGET
  \/ S2_NAV_BLUE
  \/ S2_NAV_RED
  \/ S2_NAV_GREEN
  \/ S2_REACH_CENTER
  \/ S2_FIND_BALL
  \/ S2_SHOOT
  \/ S2_RETURN_RAMP
  \/ S2_TO_REUPLOAD
  \/ S2_COMPLETE

\* setup(): the subsystems initialised, currentState = STATE_CLIMB_RAMP,
\* stateStartTime = millis().
InitS2 ==
  /\ prog = "s2"
  /\ currentState = "STATE_CLIMB_RAMP"
  /\ target = "GREEN"
  /\ InitCommon

SpecS2 == InitS2 /\ [][NextS2]_vars

(***************************************************************************)
(* section3.ino                                                            *)
(***************************************************************************)
S3(st) == prog = "s3" /\ pc = "loop" /\ currentState = st

S3_FIND_RED_LINE ==
  /\ S3("STATE_FIND_RED_LINE")
  /\ \E in \in Sample({"NONE"}, {NO_ECHO}, FALSE), rc \in ReadCosts,
        tc \in turn(-90).costs,
        in2 \in Sample(Colors, {NO_ECHO}, FALSE), rc2 \in ReadCosts :
       LET o == ReadAgain(CallTurn(Begin(in, rc), -90, tc), in2, rc2)
       IN  IF o.sensors.detectedColor = "RED"
             THEN Commit(transitionTo(o, "STATE_FOLLOW_RED"))
             ELSE LET o2 == Check(Drive(Delay(Drive(o,
                                 <<Forward(SPEED_SLOW)>>), 300), <<CmdStop>>))
                  IN  Commit(IF TimedOut(o2.chk, S3_FIND_RED_TIMEOUT)
                               THEN transitionTo(o2, "STATE_FOLLOW_RED")
                               ELSE o2)

S3_FOLLOW_RED ==
  /\ S3("STATE_FOLLOW_RED")
  /\ \E in \in Sample(Colors, NearDists, FALSE), rc \in ReadCosts :
       /\ LostOK(in)
       /\ LET o == CallFollowColorLine(Begin(in, rc), "RED")
              d == o.sensors
              o2 == IF ~o.holding /\ d.obstacleDetected
                       /\ d.distance < DIST_BOX_PICKUP + 10
                      THEN transitionTo(o, "STATE_APPROACH_BOX")
                      ELSE o
              o3 == IF o2.holding /\ d.obstacleDetected
                       /\ d.distance < DIST_OBSTACLE
                      THEN transitionTo(o2, "STATE_TO_OBSTACLES")
                      ELSE o2
          IN  Commit(IF o3.holding /\ o3.oc >= 2 /\ d.detectedColor = "BLUE"
                       THEN transitionTo(o3, "STATE_FIND_BLUE")
                       ELSE o3)

S3_APPROACH_BOX ==
  /\ S3("STATE_APPROACH_BOX")
  /\ \E in \in Sample({"NONE"}, BoxDists, FALSE), rc \in ReadCosts :
       LET o == Begin(in, rc)
       IN  Commit(IF o.sensors.distance <= DIST_BOX_PICKUP
                    THEN transitionTo(Drive(o, <<CmdStop>>), "STATE_PICKUP")
                    ELSE Drive(o, <<Forward(SPEED_SLOW)>>))

\* PICKUP that goes back to FOLLOW_RED with the box.
S3_PICKUP_backToRed ==
  /\ S3("STATE_PICKUP")
  /\ \E in \in Sample({"NONE"}, {5}, FALSE), rc \in ReadCosts :
       LET o == pickup(Begin(in, rc))
       IN  Commit(IF o.holding
                    THEN transitionTo(o, "STATE_FOLLOW_RED")
                    ELSE o)

S3_PICKUP ==
  /\ S3("STATE_PICKUP")
  /\ \E in \in Sample({"NONE"}, {5}, FALSE), rc \in ReadCosts :
       LET o == pickup(Begin(in, rc))
       IN  Commit(IF o.holding
                    THEN transitionTo(o, "STATE_TO_OBSTACLES")
                    ELSE o)

\* TO_OBSTACLES that takes a BLUE reading for the drop zone whatever the
\* obstacle counter.
S3_TO_OBSTACLES_blueAnyCount ==
  /\ S3("STATE_TO_OBSTACLES")
  /\ \E in \in Sample(FollowColors("RED") \cup {"BLUE"}, ObstacleDists,
                      FALSE),
        rc \in ReadCosts :
       /\ LostOK(in)
       /\ LET o == CallFollowColorLine(Begin(in, rc), "RED")
          IN  IF o.sensors.obstacleDetected
                 /\ o.sensors.distance < DIST_OBSTACLE
                THEN LET o2 == [o EXCEPT !.oc = (@ + 1) % UINT8_MOD]
                     IN  Commit(IF o2.oc = 1
                                  THEN transitionTo(o2, "STATE_AVOID_OBS_1")
                                  ELSE transitionTo(o2, "STATE_AVOID_OBS_2"))
                ELSE Commit(IF o.sensors.detectedColor = "BLUE"
                              THEN transitionTo(o, "STATE_FIND_BLUE")
                              ELSE o)

S3_TO_OBSTACLES ==
  /\ S3("STATE_TO_OBSTACLES")
  /\ \E in \in Sample(FollowColors("RED") \cup {"BLUE"}, ObstacleDists,
                      FALSE),
        rc \in ReadCosts :
       /\ LostOK(in)
       /\ LET o == CallFollowColorLine(Begin(in, rc), "RED")
          IN  IF o.sensors.obstacleDetected
                 /\ o.sensors.distance < DIST_OBSTACLE
                THEN LET o2 == [o EXCEPT !.oc = (@ + 1) % UINT8_MOD]
                     IN  Commit(IF o2.oc = 1
                                  THEN transitionTo(o2, "STATE_AVOID_OBS_1")
                                  ELSE transitionTo(o2, "STATE_AVOID_OBS_2"))
                ELSE Commit(o)

S3_AVOID_OBS_1 ==
  /\ S3("STATE_AVOID_OBS_1")
  /\ \E in \in Sample({"NONE"}, {10}, FALSE), rc \in ReadCosts :
       Commit(CallAvoidObstacleRight(Begin(in, rc)))

S3_AVOID_OBS_2 ==
  /\ S3("STATE_AVOID_OBS_2")
  /\ \E in \in Sample({"NONE"}, {10}, FALSE), rc \in ReadCosts :
       Commit(CallAvoidObstacleRight(Begin(in, rc)))

\* avoidObstacleRight returns to AVOID_OBS_1 or AVOID_OBS_2, which goes on
\* to CLEAR_OBS_1 or CLEAR_OBS_2.
S3_AVOID_OBS_returned ==
  /\ prog = "s3" /\ pc = "hugged"
  /\ AvoidReturnEffects
  /\ LET o == transitionTo(Resume,
                IF currentState = "STATE_AVOID_OBS_1"
                  THEN "STATE_CLEAR_OBS_1" ELSE "STATE_CLEAR_OBS_2")
     IN  /\ currentState' = o.state
         /\ elapsed' = Sat(prog, o.state, o.el + TIME_LOOP_DELAY)
         /\ searchCount' = o.sc
         /\ searchDirection' = o.sd
         /\ tick' = [tick EXCEPT !.trans = o.trans]
  /\ pc' = "loop"
  /\ UNCHANGED <<prog, testVars, checkElapsed, sensors, holding, obstacleCount,
                 selSearchDir, selSearchAttempts, lastCall, search, target,
                 run>>

S3_CLEAR_OBS_1 ==
  /\ S3("STATE_CLEAR_OBS_1")
  /\ \E in \in Sample({"NONE"}, {NO_ECHO}, FALSE), rc \in ReadCosts :
       Commit(CallSearchForLine(
                Delay(Drive(Begin(in, rc), <<Forward(SPEED_NORMAL)>>), 500),
                "RED", 1000))

S3_CLEAR_OBS_1_searched ==
  /\ prog = "s3" /\ pc = "searched" /\ currentState = "STATE_CLEAR_OBS_1"
  /\ Commit(IF search.found
              THEN transitionTo(Resume, "STATE_TO_OBSTACLES")
              ELSE transitionTo(
                     Delay(Drive(Resume, <<Forward(SPEED_SLOW)>>), 500),
                     "STATE_TO_OBSTACLES"))

S3_CLEAR_OBS_2 ==
  /\ S3("STATE_CLEAR_OBS_2")
  /\ \E in \in Sample({"NONE"}, {NO_ECHO}, FALSE), rc \in ReadCosts :
       Commit(transitionTo(
                Delay(Drive(Begin(in, rc), <<Forward(SPEED_NORMAL)>>), 500),
                "STATE_PASS_REUPLOAD"))

S3_PASS_REUPLOAD ==
  /\ S3("STATE_PASS_REUPLOAD")
  /\ \E in \in Sample(FollowColors("RED") \cup {"BLUE"}, ObstacleDists, FALSE),
        rc \in ReadCosts :
       /\ LostOK(in)
       /\ LET o == CallFollowColorLine(Begin(in, rc), "RED")
              o2 == Check(IF o.sensors.detectedColor = "BLUE"
                            THEN transitionTo(o, "STATE_FIND_BLUE")
                            ELSE o)
          IN  Commit(IF TimedOut(o2.chk, S3_PASS_REUPLOAD_TIMEOUT)
                       THEN CallSearchForLine(o2, "BLUE", 2000)
                       ELSE o2)

\* if (!searchForLine(COLOR_BLUE, 2000)) searchForLine(COLOR_RED, 1000);
S3_PASS_REUPLOAD_searched ==
  /\ prog = "s3" /\ pc = "searched" /\ currentState = "STATE_PASS_REUPLOAD"
  /\ Commit(IF search.target = "BLUE" /\ ~search.found
              THEN CallSearchForLine(Resume, "RED", 1000)
              ELSE Resume)

\* FIND_BLUE that goes on to DROP without stopping the drive.
S3_FIND_BLUE_driving ==
  /\ S3("STATE_FIND_BLUE")
  /\ \E in \in Sample({"NONE", "BLUE"}, {NO_ECHO}, FALSE), rc \in ReadCosts :
       Commit(transitionTo(
                Delay(Drive(Begin(in, rc), <<Forward(SPEED_SLOW)>>), 500),
                "STATE_DROP"))

S3_FIND_BLUE ==
  /\ S3("STATE_FIND_BLUE")
  /\ \E in \in Sample({"NONE", "BLUE"}, {NO_ECHO}, FALSE), rc \in ReadCosts :
       Commit(transitionTo(
                Drive(Delay(Drive(Begin(in, rc), <<Forward(SPEED_SLOW)>>),
                            500),
                      <<CmdStop>>),
                "STATE_DROP"))

S3_DROP ==
  /\ S3("STATE_DROP")
  /\ \E in \in Sample({"NONE", "BLUE"}, {NO_ECHO}, FALSE), rc \in ReadCosts :
       LET o == drop(Begin(in, rc))
       IN  Commit(IF ~o.holding
                    THEN transitionTo(o, "STATE_RETURN_INTERSECTION")
                    ELSE o)

S3_RETURN_INTERSECTION ==
  /\ S3("STATE_RETURN_INTERSECTION")
  /\ \E in \in Sample(Colors, ObstacleDists, FALSE), rc \in ReadCosts :
       LET o == IF Begin(in, rc).sensors.detectedColor = "RED"
                  THEN CallFollowColorLine(Begin(in, rc), "RED")
                  ELSE Drive(Begin(in, rc), <<Forward(SPEED_SLOW)>>)
           o2 == Check(IF o.sensors.detectedColor = "BLACK"
                         THEN transitionTo(o, "STATE_FIND_BLACK")
                         ELSE o)
       IN  Commit(IF TimedOut(o2.chk, S3_RETURN_INTERSECTION_TIMEOUT)
                    THEN transitionTo(o2, "STATE_FIND_BLACK")
                    ELSE o2)

S3_FIND_BLACK ==
  /\ S3("STATE_FIND_BLACK")
  /\ \E in \in Sample(Colors, {NO_ECHO}, FALSE), rc \in ReadCosts :
       LET o == Begin(in, rc)
       IN  IF o.sensors.detectedColor = "BLACK"
             THEN Commit(transitionTo(o, "STATE_FOLLOW_BLACK_HOME"))
             ELSE \E tc \in turn(45).costs,
                     in2 \in Sample(Colors, {NO_ECHO}, FALSE),
                     rc2 \in ReadCosts :
                    LET o2 == ReadAgain(CallTurn(o, 45, tc), in2, rc2)
                    IN  IF o2.sensors.detectedColor # "BLACK"
                          THEN \E tc2 \in turn(-90).costs :
                                 Commit(CallTurn(o2, -90, tc2))
                          ELSE Commit(o2)

S3_FOLLOW_BLACK_HOME ==
  /\ S3("STATE_FOLLOW_BLACK_HOME")
  /\ \E in \in Sample({"NONE", "BLACK"}, ObstacleDists, TRUE),
        rc \in ReadCosts :
       LET o == Check(CallFollowBlackLine(Begin(in, rc)))
       IN  Commit(IF TimedOut(o.chk, TIMEOUT_RETURN)
                    THEN transitionTo(Drive(o, <<CmdStop>>),
                                      "STATE_COMPLETE")
                    ELSE o)

\* Motors::stop(), the clamp opened and closed three times, then
\* while (true) delay(1000).
S3_COMPLETE ==
  /\ S3("STATE_COMPLETE")
  /\ \E in \in Sample({"NONE"}, {NO_ECHO}, FALSE), rc \in ReadCosts :
       Commit([Drive(Begin(in, rc), <<CmdStop>>) EXCEPT !.pc = "halted"])

NextS3 ==
  \/ S3_FIND_RED_LINE
  \/ S3_FOLLOW_RED
  \/ S3_APPROACH_BOX
  \/ S3_PICKUP
  \/ S3_TO_OBSTACLES
  \/ S3_AVOID_OBS_1
  \/ S3_AVOID_OBS_2
  \/ (prog = "s3" /\ AvoidApproach)
  \/ (prog = "s3" /\ WallHugIterate)
  \/ S3_AVOID_OBS_returned
  \/ S3_CLEAR_OBS_1
  \/ (prog = "s3" /\ SearchIterate)
  \/ S3_CLEAR_OBS_1_searched
  \/ S3_CLEAR_OBS_2
  \/ S3_PASS_REUPLOAD
  \/ S3_PASS_REUPLOAD_searched
  \/ S3_FIND_BLUE
  \/ S3_DROP
  \/ S3_RETURN_INTERSECTION
  \/ S3_FIND_BLACK
  \/ S3_FOLLOW_BLACK_HOME
  \/ S3_COMPLETE

\* setup(): the subsystems initialised, currentState = STATE_FIND_RED_LINE,
\* stateStartTime = millis().
InitS3 ==
  /\ prog = "s3"
  /\ currentState = "STATE_FIND_RED_LINE"
  /\ target = "GREEN"
  /\ InitCommon

SpecS3 == InitS3 /\ [][NextS3]_vars

(***************************************************************************)
(* The three sketches, one of them uploaded.                               *)
(***************************************************************************)
Init == InitS1 \/ InitS2 \/ InitS3
Next == NextS1 \/ NextS2 \/ NextS3
Spec == Init /\ [][Next]_vars
\* loop() is called again and again, and a blocking routine goes on.
FairSpec == Spec /\ WF_vars(Next)

(***************************************************************************)
(* target_section.ino, the standalone sketch of section 2.  It keeps its   *)
(* own search state, searchCount and searchDir (here searchCount and       *)
(* searchDirection), and reads the colour and the distance into locals of  *)
(* processState (here the fields detectedColor and distance of sensors).   *)
(***************************************************************************)
\* navigateToCenter() of the sketch: forward for 100 ms, then after more
\* than five calls a pivot of 200 ms, the stop and the change of direction.
TS_navigateToCenter(sc, sd) ==
  LET n == (sc + 1) % UINT8_MOD
  IN  IF n > 5
        THEN [cmds |-> <<Forward(SPEED_SLOW),
                         IF sd > 0 THEN TurnRight(SPEED_TURN)
                                   ELSE TurnLeft(SPEED_TURN), CmdStop>>,
              searchCount |-> 0, searchDirection |-> -1 * sd, cost |-> 300]
        ELSE [cmds |-> <<Forward(SPEED_SLOW)>>,
              searchCount |-> n, searchDirection |-> sd, cost |-> 100]

\* transitionTo(newState) of the sketch: currentState, stateStartTime =
\* millis(), searchCount = 0.
TS_transitionTo(o, newState) ==
  [o EXCEPT !.state = newState, !.el = 0, !.sc = 0, !.trans = @ + 1]

TS(st) == prog = "target" /\ pc = "loop" /\ currentState = st

TS_CLIMB_RAMP ==
  /\ TS("STATE_CLIMB_RAMP")
  /\ \E in \in Sample(Colors, {NO_ECHO}, FALSE), rc \in ReadCosts :
       LET o == Drive(Begin(in, rc), <<Forward(SPEED_FAST)>>)
           o2 == IF o.sensors.detectedColor \notin {"NONE", "WHITE"}
                   THEN TS_transitionTo(Drive(o, <<CmdStop>>),
                                        "STATE_ON_TARGET")
                   ELSE o
           o3 == Check(o2)
       IN  Commit(IF TimedOut(o3.chk, TS_RAMP_TIMEOUT)
                    THEN TS_transitionTo(Drive(o3, <<CmdStop>>),
                                         "STATE_ON_TARGET")
                    ELSE o3)

TS_ON_TARGET ==
  /\ TS("STATE_ON_TARGET")
  /\ \E in \in Sample(Colors, {NO_ECHO}, FALSE), rc \in ReadCosts :
       LET o == Begin(in, rc)
           c == o.sensors.detectedColor
       IN  Commit(IF c = "BLUE" THEN TS_transitionTo(o, "STATE_NAV_BLUE")
                  ELSE IF c = "RED" THEN TS_transitionTo(o, "STATE_NAV_RED")
                  ELSE IF c = "GREEN"
                    THEN TS_transitionTo(o, "STATE_NAV_GREEN")
                  ELSE IF c = "BLACK"
                    THEN TS_transitionTo(o, "STATE_REACH_CENTER")
                  ELSE Drive(Delay(Drive(o, <<Forward(SPEED_SLOW)>>), 200),
                             <<CmdStop>>))

\* The state that NAV_BLUE, NAV_RED or NAV_GREEN goes to on the colour read
\* after navigateToCenter(): the ring further in whose colour it is, else
\* the state itself.
TS_NavNext(st, color) ==
  IF color = "RED" /\ st = "STATE_NAV_BLUE" THEN "STATE_NAV_RED"
  ELSE IF color = "GREEN" /\ st \in {"STATE_NAV_BLUE", "STATE_NAV_RED"}
    THEN "STATE_NAV_GREEN"
  ELSE IF color = "BLACK" THEN "STATE_REACH_CENTER"
  ELSE st

\* NAV_BLUE, NAV_RED, NAV_GREEN: navigateToCenter(), color = readColor(),
\* then the transition on a colour further in.
TS_NAV ==
  /\ prog = "target" /\ pc = "loop"
  /\ currentState \in {"STATE_NAV_BLUE", "STATE_NAV_RED", "STATE_NAV_GREEN"}
  /\ \E in \in Sample(Colors, {NO_ECHO}, FALSE), rc \in ReadCosts,
        c \in Colors :
       LET o == Begin(in, rc)
           r == TS_navigateToCenter(o.sc, o.sd)
           o2 == [o EXCEPT !.cmds = @ \o r.cmds, !.sc = r.searchCount,
                           !.sd = r.searchDirection, !.el = @ + r.cost + rc,
                           !.sensors.detectedColor = c,
                           !.call = "navigateToCenter", !.calls = @ + 1]
       IN  Commit(IF TS_NavNext(currentState, c) # currentState
                    THEN TS_transitionTo(o2, TS_NavNext(currentState, c))
                    ELSE o2)

TS_REACH_CENTER ==
  /\ TS("STATE_REACH_CENTER")
  /\ \E in \in Sample({"NONE", "BLACK"}, {NO_ECHO}, FALSE), rc \in ReadCosts :
       Commit(TS_transitionTo(Delay(Drive(Begin(in, rc), <<CmdStop>>), 500),
                              "STATE_FIND_BALL"))

TS_FIND_BALL ==
  /\ TS("STATE_FIND_BALL")
  /\ \E in \in Sample({"NONE", "BLACK"}, NearDists, FALSE), rc \in ReadCosts :
       LET o == Begin(in, rc)
       IN  IF o.sensors.distance < DIST_BALL_DETECT /\ o.sensors.distance > 0
             THEN Commit(TS_transitionTo(o, "STATE_SHOOT"))
             ELSE LET o2 == Check(Drive(Delay(Drive(o,
                                 <<Forward(SPEED_SLOW)>>), 200), <<CmdStop>>))
                  IN  Commit(IF TimedOut(o2.chk, TS_FIND_BALL_TIMEOUT)
                               THEN TS_transitionTo(o2, "STATE_SHOOT")
                               ELSE o2)

\* The arm down, the push, the arm up, the wait.
TS_SHOOT ==
  /\ TS("STATE_SHOOT")
  /\ \E in \in Sample({"NONE"}, {NO_ECHO}, FALSE), rc \in ReadCosts :
       Commit(TS_transitionTo(
                Delay(Drive(Delay(Drive(Delay(Begin(in, rc), 300),
                                        <<Forward(SPEED_FAST)>>), 400),
                            <<CmdStop>>),
                      150 + 1000),
                "STATE_RETURN"))

\* The half turn, the drive down the ramp.
TS_RETURN ==
  /\ TS("STATE_RETURN")
  /\ \E in \in Sample({"NONE"}, {NO_ECHO}, FALSE), rc \in ReadCosts :
       Commit(TS_transitionTo(
                Drive(Delay(Drive(Drive(Delay(Drive(Begin(in, rc),
                        <<TurnRight(SPEED_TURN)>>), TIME_TURN_90 * 2),
                        <<CmdStop>>), <<Forward(SPEED_NORMAL)>>), 4000),
                      <<CmdStop>>),
                "STATE_COMPLETE"))

\* stopMotors(), then while (true) delay(1000).
TS_COMPLETE ==
  /\ TS("STATE_COMPLETE")
  /\ \E in \in Sample({"NONE"}, {NO_ECHO}, FALSE), rc \in ReadCosts :
       Commit([Drive(Begin(in, rc), <<CmdStop>>) EXCEPT !.pc = "halted"])

NextTS ==
  \/ TS_CLIMB_RAMP
  \/ TS_ON_TARGET
  \/ TS_NAV
  \/ TS_REACH_CENTER
  \/ TS_FIND_BALL
  \/ TS_SHOOT
  \/ TS_RETURN
  \/ TS_COMPLETE

\* setup(): transitionTo(STATE_CLIMB_RAMP), searchDir as initialised.
InitTS ==
  /\ prog = "target"
  /\ currentState = "STATE_CLIMB_RAMP"
  /\ target = "GREEN"
  /\ InitCommon

\* The four sketches that keep a search state.
InitAll == Init \/ InitTS
NextAll == Next \/ NextTS
SpecAll == InitAll /\ [][NextAll]_vars

(***************************************************************************)
(* Properties                                                              *)
(***************************************************************************)

\* C1: in each of the three sketches, whatever the sensors deliver, the
\* mission state eventually becomes COMPLETE, given that loop() keeps being
\* called.
C1_EventuallyComplete == <>(currentState = "STATE_COMPLETE")

\* The states of C2: sketch, state, budget in ms, state of the fallback.
C2_States ==
  { <<"s1", "STATE_TO_REUPLOAD", 3000, "STATE_COMPLETE">>,
    <<"s2", "STATE_CLIMB_RAMP", 5000, "STATE_ON_TARGET">>,
    <<"s2", "STATE_FIND_BALL", 3000, "STATE_SHOOT">>,
    <<"s2", "STATE_RETURN_RAMP", 4000, "STATE_TO_REUPLOAD">>,
    <<"s3", "STATE_FIND_RED_LINE", 3000, "STATE_FOLLOW_RED">>,
    <<"s3", "STATE_RETURN_INTERSECTION", 5000, "STATE_FIND_BLACK">>,
    <<"s3", "STATE_FOLLOW_BLACK_HOME", 5000, "STATE_COMPLETE">> }

\* The success condition of a state of C2 on the snapshot d its handler
\* tests.
C2_Success(st, d) ==
  IF st = "STATE_CLIMB_RAMP" THEN d.detectedColor \notin {"NONE", "WHITE"}
  ELSE IF st = "STATE_FIND_BALL" THEN d.distance < 20 /\ d.distance > 0
  ELSE IF st = "STATE_FIND_RED_LINE" THEN d.detectedColor = "RED"
  ELSE IF st = "STATE_RETURN_INTERSECTION" THEN d.detectedColor = "BLACK"
  ELSE FALSE

\* C2: in each state of C2_States, a tick on which the success condition is
\* false compares the time since the state was entered with the budget T;
\* the tick takes the fallback transition if that time is later than T, and
\* leaves the mission in the state if it is not.
C2_TimeoutFallback ==
  [][\A e \in C2_States :
       (prog = e[1] /\ pc = "loop" /\ currentState = e[2]
          /\ ~C2_Success(e[2], sensors')) =>
         /\ checkElapsed' >= 0
         /\ checkElapsed' > e[3] => currentState' = e[4]
         /\ checkElapsed' <= e[3] => currentState' = e[2]]_vars

\* The last tick of RETURN_INTERSECTION in section 3: the budget has run
\* out with no black line seen, and the mission is in FIND_BLACK.
C2_Witness ==
  /\ prog = "s3"
  /\ currentState = "STATE_FIND_BLACK"
  /\ checkElapsed > 5000
  /\ sensors.detectedColor # "BLACK"

\* C3: in the three sketches, once currentState is COMPLETE it stays
\* COMPLETE; the drive is stopped in every state with currentState =
\* COMPLETE; every drive command issued from such a state on is stop.
C3_CompleteTerminal ==
  /\ [][currentState = "STATE_COMPLETE" =>
          /\ currentState' = "STATE_COMPLETE"
          /\ \A i \in 1..Len(cmds') : cmds'[i] = <<"stop", 0>>]_vars
  /\ [](currentState = "STATE_COMPLETE" => lastDrive = <<"stop", 0>>)

\* Section 3 halted in COMPLETE, having carried the box past two obstacles.
C3_Witness ==
  /\ prog = "s3"
  /\ currentState = "STATE_COMPLETE"
  /\ pc = "halted"
  /\ obstacleCount = 2
  /\ cmds = <<CmdStop>>

\* C4: every call of Navigation::followBlackLine issues exactly one drive
\* command and returns: on obstacleDetected, stop and NAV_OBSTACLE whatever
\* the line flags; else on (left, right) = (TRUE, TRUE) forward at
\* SPEED_NORMAL and NAV_CONTINUE; on (TRUE, FALSE) curveLeft and
\* NAV_CONTINUE; on (FALSE, TRUE) curveRight and NAV_CONTINUE; on
\* (FALSE, FALSE) forward at SPEED_SLOW and NAV_LOST.  The call leaves
\* searchCount and searchDirection as they were.
C4_FollowBlackLine ==
  /\ [](lastCall = "followBlackLine" =>
          /\ Len(cmds) = 1
          /\ IF sensors.obstacleDetected
               THEN cmds[1] = <<"stop", 0>> /\ navResult = "NAV_OBSTACLE"
             ELSE IF sensors.leftOnLine /\ sensors.rightOnLine
               THEN cmds[1] = <<"forward", 150>> /\ navResult = "NAV_CONTINUE"
             ELSE IF sensors.leftOnLine
               THEN cmds[1] = <<"curveLeft", 150>>
                    /\ navResult = "NAV_CONTINUE"
             ELSE IF sensors.rightOnLine
               THEN cmds[1] = <<"curveRight", 150>>
                    /\ navResult = "NAV_CONTINUE"
             ELSE cmds[1] = <<"forward", 100>> /\ navResult = "NAV_LOST")
  /\ [][lastCall' = "followBlackLine" =>
          UNCHANGED <<searchCount, searchDirection>>]_vars

\* A call with only the left sensor on the line, no obstacle, a colour in
\* view and a search state other than the reset one: it curves left.
C4_Witness ==
  /\ lastCall = "followBlackLine"
  /\ sensors.leftOnLine /\ ~sensors.rightOnLine /\ ~sensors.obstacleDetected
  /\ sensors.detectedColor = "GREEN"
  /\ searchCount = 4 /\ searchDirection = -1
  /\ cmds = <<CurveLeft(SPEED_NORMAL)>>

\* C5: every call of Navigation::followColorLine(data, target) issues
\* exactly one drive command: on obstacleDetected, stop and NAV_OBSTACLE with
\* searchCount unchanged; else on detectedColor = target, forward at
\* SPEED_NORMAL, searchCount 0 and NAV_CONTINUE; else on another colour than
\* NONE, stop and NAV_TARGET_FOUND with searchCount unchanged; else forward
\* at SPEED_SLOW and searchCount one more than before.
C5_FollowColorLine ==
  [][lastCall' = "followColorLine" =>
       /\ Len(cmds') = 1
       /\ IF sensors'.obstacleDetected
            THEN /\ cmds'[1] = <<"stop", 0>>
                 /\ navResult' = "NAV_OBSTACLE"
                 /\ searchCount' = searchCount
          ELSE IF sensors'.detectedColor = target
            THEN /\ cmds'[1] = <<"forward", 150>>
                 /\ navResult' = "NAV_CONTINUE"
                 /\ searchCount' = 0
          ELSE IF sensors'.detectedColor # "NONE"
            THEN /\ cmds'[1] = <<"stop", 0>>
                 /\ navResult' = "NAV_TARGET_FOUND"
                 /\ searchCount' = searchCount
          ELSE /\ cmds'[1] = <<"forward", 100>>
               /\ searchCount' = searchCount + 1]_vars

\* C6: from searchCount = 0, over consecutive followColorLine calls that
\* see no obstacle and no colour, the n-th call leaves searchCount = n (it
\* grows by one with each call and never falls), returns NAV_CONTINUE for
\* n <= 10 and NAV_LOST for every n >= 11.
C6_LostAfterTen ==
  lastCall = "followColorLine" /\ run >= 1 =>
    /\ searchCount = run
    /\ run <= 10 => navResult = "NAV_CONTINUE"
    /\ run >= 11 => navResult = "NAV_LOST"

\* C7: from a reset search state, over consecutive navigateToCenter calls
\* that see the colour unchanged, the n-th call issues forward only when n
\* is no multiple of 6; when it is, the call issues forward, one pivot and
\* stop, leaves searchCount 0 and searchDirection negated; the pivots
\* alternate, the first one (n = 6) to the right.
C7_CenterSearch ==
  lastCall = "navigateToCenter" /\ run >= 1 =>
    LET k == run \div 6
        odd == k % 2 = 1
    IN  IF run % 6 = 0
          THEN /\ cmds = << <<"forward", 100>>,
                            IF odd THEN <<"turnRight", 120>>
                                   ELSE <<"turnLeft", 120>>,
                            <<"stop", 0>> >>
               /\ searchCount = 0
               /\ searchDirection = IF odd THEN -1 ELSE 1
          ELSE /\ cmds = << <<"forward", 100>> >>
               /\ searchCount = run % 6
               /\ searchDirection = IF odd THEN -1 ELSE 1

\* The twelfth consecutive call on an unchanged colour: the second pivot,
\* to the left.
C7_Witness ==
  /\ lastCall = "navigateToCenter"
  /\ run = 12
  /\ cmds[2] = TurnLeft(SPEED_TURN)
  /\ searchDirection = 1

\* C8: every call of navigateToCenter returns NAV_TARGET_FOUND when
\* detectedColor differs from previousColor and is not NONE, and
\* NAV_CONTINUE in every other case, with or without an obstacle; a call
\* that returns NAV_TARGET_FOUND leaves searchCount 0 and searchDirection
\* as it was.
C8_TargetFound ==
  /\ [](lastCall = "navigateToCenter" =>
          /\ navResult \in {"NAV_TARGET_FOUND", "NAV_CONTINUE"}
          /\ navResult = "NAV_TARGET_FOUND" <=>
               /\ sensors.detectedColor # sensors.previousColor
               /\ sensors.detectedColor # "NONE")
  /\ [][lastCall' = "navigateToCenter" /\ navResult' = "NAV_TARGET_FOUND" =>
          searchCount' = 0 /\ searchDirection' = searchDirection]_vars

\* A ring boundary found with an obstacle in view, after a pivot has
\* turned the search direction to the left.
C8_Witness ==
  /\ lastCall = "navigateToCenter"
  /\ navResult = "NAV_TARGET_FOUND"
  /\ sensors.obstacleDetected
  /\ searchDirection = -1
  /\ searchCount = 0

\* C9: avoidObstacleRight, once called, returns, and returns NAV_CONTINUE;
\* its first and its last drive command are stop; its other commands are, in
\* this order: pivot right, forward, pivot left, at most 30 commands of the
\* wall-hug (each forward or curveRight), pivot left, forward, pivot right.
C9_AvoidObstacleRight ==
  /\ [](avoidObs # -1 /\ avoidHug <= 30)
  /\ [](pc \in {"hug", "hugged"} => avoidFirst = <<"stop", 0>>)
  /\ [](pc = "loop" /\ navResult # "" =>
          /\ navResult = "NAV_CONTINUE"
          /\ avoidObs = 6
          /\ avoidFirst = <<"stop", 0>>
          /\ Last(cmds) = <<"stop", 0>>
          /\ lastDrive = <<"stop", 0>>)
  /\ (pc = "avoid" ~> pc = "loop")

\* The maneuver has returned after a wall-hug that used its whole budget
\* and issued a command in each of its 30 steps.
C9_Witness ==
  /\ pc = "loop"
  /\ navResult = "NAV_CONTINUE"
  /\ hugI = 30
  /\ avoidHug = 30
  /\ avoidObs = 6

\* C10: in section 1, a tick of FOLLOW_BLACK whose distance d satisfies
\* 0 < d <= DIST_BOX_PICKUP ends in APPROACH_BOX; a tick of APPROACH_BOX
\* with such a distance ends in PICKUP; FOLLOW_BLACK, once left, is never
\* entered again, so that it is left once.
C10_BoxApproach ==
  [][/\ (prog = "s1" /\ pc = "loop" /\ currentState = "STATE_FOLLOW_BLACK"
           /\ 0 < sensors'.distance /\ sensors'.distance <= 5)
          => currentState' = "STATE_APPROACH_BOX"
     /\ (prog = "s1" /\ pc = "loop" /\ currentState = "STATE_APPROACH_BOX"
           /\ 0 < sensors'.distance /\ sensors'.distance <= 5)
          => currentState' = "STATE_PICKUP"
     /\ (prog = "s1" /\ currentState # "STATE_FOLLOW_BLACK")
          => currentState' # "STATE_FOLLOW_BLACK"]_vars

\* The tick that leaves FOLLOW_BLACK on a distance at the pickup limit, the
\* tick before having seen no obstacle.
C10_Witness ==
  /\ prog = "s1"
  /\ currentState = "STATE_APPROACH_BOX"
  /\ lastCall = "followBlackLine"
  /\ navResult = "NAV_OBSTACLE"
  /\ sensors.distance = 5

\* C11: in section 3 obstacleCount starts at 0, changes only by being
\* incremented by one, on a tick of TO_OBSTACLES that detects an obstacle,
\* and never exceeds 2; the first such tick ends in AVOID_OBS_1, the second
\* in AVOID_OBS_2; a tick of FOLLOW_RED or TO_OBSTACLES that reads BLUE and
\* no obstacle while the counter is below 2 leaves the state as it is;
\* FIND_BLUE is entered, and FIND_BLUE and DROP are occupied, with the
\* counter at 2 only.
C11_ObstacleCounter ==
  /\ obstacleCount = 0
  /\ [](obstacleCount \in 0..2)
  /\ [](currentState \in {"STATE_FIND_BLUE", "STATE_DROP"} =>
          obstacleCount >= 2)
  /\ [][/\ obstacleCount' \in {obstacleCount, obstacleCount + 1}
        /\ obstacleCount' # obstacleCount =>
             /\ S3("STATE_TO_OBSTACLES")
             /\ sensors'.obstacleDetected
        /\ (S3("STATE_TO_OBSTACLES") /\ sensors'.obstacleDetected) =>
             /\ obstacleCount' = obstacleCount + 1
             /\ currentState' = IF obstacleCount = 0
                                  THEN "STATE_AVOID_OBS_1"
                                  ELSE "STATE_AVOID_OBS_2"
        /\ (/\ pc = "loop"
            /\ currentState \in {"STATE_FOLLOW_RED", "STATE_TO_OBSTACLES"}
            /\ obstacleCount < 2
            /\ sensors'.detectedColor = "BLUE"
            /\ ~sensors'.obstacleDetected) =>
             currentState' = currentState
        /\ (currentState' = "STATE_FIND_BLUE"
              /\ currentState # "STATE_FIND_BLUE") =>
             obstacleCount >= 2]_vars

\* A tick of TO_OBSTACLES after the first obstacle has been passed: it reads
\* BLUE and no obstacle, and the mission stays in TO_OBSTACLES.
C11_Witness ==
  /\ prog = "s3"
  /\ pc = "loop"
  /\ currentState = "STATE_TO_OBSTACLES"
  /\ obstacleCount = 1
  /\ lastCall = "followColorLine"
  /\ sensors.detectedColor = "BLUE"
  /\ ~sensors.obstacleDetected

\* The mission chain of section 1.
C12_Chain ==
  << "STATE_FOLLOW_BLACK", "STATE_APPROACH_BOX", "STATE_PICKUP",
     "STATE_FIND_INTERSECTION", "STATE_SELECT_GREEN", "STATE_FOLLOW_GREEN",
     "STATE_APPROACH_BLUE", "STATE_DROP", "STATE_TO_REUPLOAD",
     "STATE_COMPLETE" >>

C12_Rank(st) == CHOOSE i \in 1..Len(C12_Chain) : C12_Chain[i] = st

\* C12: in section 1 currentState is always a state of the chain, and every
\* change of it goes to the next state of the chain; the box is taken
\* (holding set) only by the tick of PICKUP, which leaves PICKUP, and
\* released only by the tick of DROP, which leaves DROP, so that each is
\* done once and pickup first; FOLLOW_GREEN is left, toward the drop, only
\* on a tick whose snapshot colour is BLUE.
C12_ChainOrder ==
  /\ [](currentState \in {C12_Chain[i] : i \in 1..Len(C12_Chain)})
  /\ [](holding =>
          /\ C12_Rank(currentState) > C12_Rank("STATE_PICKUP")
          /\ C12_Rank(currentState) <= C12_Rank("STATE_DROP"))
  /\ [][/\ currentState' # currentState =>
             C12_Rank(currentState') = C12_Rank(currentState) + 1
        /\ S1("STATE_PICKUP") =>
             holding' /\ currentState' = "STATE_FIND_INTERSECTION"
        /\ S1("STATE_DROP") =>
             ~holding' /\ currentState' = "STATE_TO_REUPLOAD"
        /\ holding' # holding =>
             S1("STATE_PICKUP") \/ S1("STATE_DROP")
        /\ (currentState = "STATE_FOLLOW_GREEN"
              /\ currentState' # "STATE_FOLLOW_GREEN") =>
             /\ currentState' = "STATE_APPROACH_BLUE"
             /\ sensors'.detectedColor = "BLUE"]_vars

\* The box has been dropped and the mission goes on to the re-upload point,
\* SELECT_GREEN having turned an odd number of times without seeing green.
C12_Witness ==
  /\ prog = "s1"
  /\ currentState = "STATE_TO_REUPLOAD"
  /\ ~holding
  /\ selSearchDir = 1
  /\ lastDrive = CmdStop

\* The mission states of section 2, from the ramp inward and back.
C13_Order ==
  << "STATE_CLIMB_RAMP", "STATE_ON_TARGET", "STATE_NAV_BLUE",
     "STATE_NAV_RED", "STATE_NAV_GREEN", "STATE_REACH_CENTER",
     "STATE_FIND_BALL", "STATE_SHOOT", "STATE_RETURN_RAMP",
     "STATE_TO_REUPLOAD", "STATE_COMPLETE" >>

C13_Rank(st) == CHOOSE i \in 1..Len(C13_Order) : C13_Order[i] = st

\* C13: in section 2 a tick of NAV_BLUE ends in NAV_BLUE, NAV_RED, NAV_GREEN
\* or REACH_CENTER, a tick of NAV_RED in NAV_RED, NAV_GREEN or REACH_CENTER,
\* a tick of NAV_GREEN in NAV_GREEN or REACH_CENTER, whatever colour the
\* snapshot shows; no change of state goes back in the order of the
\* mission; FIND_BALL is entered from REACH_CENTER only and SHOOT from
\* FIND_BALL only, and the tick of SHOOT leaves it, so that SHOOT is entered
\* once.
C13_InwardOnly ==
  [][/\ S2("STATE_NAV_BLUE") =>
          currentState' \in {"STATE_NAV_BLUE", "STATE_NAV_RED",
                             "STATE_NAV_GREEN", "STATE_REACH_CENTER"}
     /\ S2("STATE_NAV_RED") =>
          currentState' \in {"STATE_NAV_RED", "STATE_NAV_GREEN",
                             "STATE_REACH_CENTER"}
     /\ S2("STATE_NAV_GREEN") =>
          currentState' \in {"STATE_NAV_GREEN", "STATE_REACH_CENTER"}
     /\ currentState' # currentState =>
          C13_Rank(currentState') > C13_Rank(currentState)
     /\ (currentState' = "STATE_FIND_BALL"
           /\ currentState # "STATE_FIND_BALL") =>
          currentState = "STATE_REACH_CENTER"
     /\ (currentState' = "STATE_SHOOT" /\ currentState # "STATE_SHOOT") =>
          currentState = "STATE_FIND_BALL"
     /\ S2("STATE_SHOOT") => currentState' = "STATE_RETURN_RAMP"]_vars

\* A tick of NAV_RED whose snapshot shows the outer ring, BLUE, after RED:
\* navigateToCenter reports a boundary and the mission stays in NAV_RED.
C13_Witness ==
  /\ prog = "s2"
  /\ currentState = "STATE_NAV_RED"
  /\ lastCall = "navigateToCenter"
  /\ navResult = "NAV_TARGET_FOUND"
  /\ sensors.previousColor = "RED"
  /\ sensors.detectedColor = "BLUE"

\* C14: whenever the three channel readings are all above COLOR_FREQ_BLACK
\* (200), a timed-out channel reading 999 included, the colour detected is
\* BLACK, whatever the channels differ by.
C14_BlackAboveThreshold ==
  (lastCall = "readColor"
     /\ sensors.redFreq > 200 /\ sensors.greenFreq > 200
     /\ sensors.blueFreq > 200) =>
    sensors.detectedColor = "BLACK"

\* A reading with the red channel timed out and the two others above the
\* threshold and 49 apart, classified BLACK.
C14_Witness ==
  /\ lastCall = "readColor"
  /\ sensors.redFreq = 999
  /\ sensors.greenFreq = 201
  /\ sensors.blueFreq = 250
  /\ sensors.detectedColor = "BLACK"

\* C15: whenever the three channel readings are all below COLOR_FREQ_WHITE
\* (50), the colour detected is WHITE, whatever the channels differ by.
C15_WhiteBelowThreshold ==
  (lastCall = "readColor"
     /\ sensors.redFreq < 50 /\ sensors.greenFreq < 50
     /\ sensors.blueFreq < 50) =>
    sensors.detectedColor = "WHITE"

\* A reading below the threshold whose red channel is lower than the two
\* others by more than the margin, classified WHITE on a 32-bit build.
C15_Witness ==
  /\ prog = "colorInt32"
  /\ lastCall = "readColor"
  /\ sensors.redFreq = 10
  /\ sensors.greenFreq = 49
  /\ sensors.blueFreq = 49
  /\ sensors.detectedColor = "WHITE"

\* The colour that wins by the rule "lower than both other channels by at
\* least 20 and below 150", tested on red, then green, then blue.
C16_Expected(r, g, b) ==
  IF g - r >= 20 /\ b - r >= 20 /\ r < 150 THEN "RED"
  ELSE IF r - g >= 20 /\ b - g >= 20 /\ g < 150 THEN "GREEN"
  ELSE IF r - b >= 20 /\ g - b >= 20 /\ b < 150 THEN "BLUE"
  ELSE "NONE"

\* C16: every reading that is not classified BLACK or WHITE is classified
\* as the first of RED, GREEN, BLUE whose channel is lower than both other
\* channels by at least COLOR_MARGIN (20) and below COLOR_FREQ_MAX (150),
\* and as NONE if there is none.
C16_MarginPriority ==
  (lastCall = "readColor"
     /\ sensors.detectedColor \notin {"BLACK", "WHITE"}) =>
    sensors.detectedColor =
      C16_Expected(sensors.redFreq, sensors.greenFreq, sensors.blueFreq)

\* C17: on a build with 16-bit int, for channel readings in 1..999, a
\* reading classified RED has its red channel below the two others, one
\* classified GREEN its green channel, one classified BLUE its blue channel.
C17_LowestChannelWins ==
  (prog = "colorInt16" /\ lastCall = "readColor"
     /\ {sensors.redFreq, sensors.greenFreq, sensors.blueFreq} \subseteq 1..999)
  => LET r == sensors.redFreq
         g == sensors.greenFreq
         b == sensors.blueFreq
         c == sensors.detectedColor
     IN  /\ c = "RED" => r < g /\ r < b
         /\ c = "GREEN" => g < r /\ g < b
         /\ c = "BLUE" => b < r /\ b < g

\* C18: the distance readDistance returns is 999 cm exactly when the echo
\* timed out (duration 0) and is above 0 and below 999 cm for every other
\* duration up to the timeout; obstacleDetected is always
\* 0 < distance < DIST_OBSTACLE (15 cm), hence false at 999.
C18_NoEchoSentinel ==
  /\ lastCall = "readUltrasonic" =>
       /\ sensors.distance = 999000 <=> run = 0
       /\ run # 0 => (sensors.distance > 0 /\ sensors.distance < 999000)
  /\ sensors.obstacleDetected <=>
       (sensors.distance > 0 /\ sensors.distance < 15000)
  /\ sensors.distance = 999000 => ~sensors.obstacleDetected

\* A read that timed out after one that saw an obstacle: the distance is
\* 999 cm and obstacleDetected has been cleared.
C18_Witness ==
  /\ prog = "ultra"
  /\ lastCall = "readUltrasonic"
  /\ run = 0
  /\ sensors.distance = 999000
  /\ ~sensors.obstacleDetected

\* C19: a distance of 999 (no echo) is far away for every guard.  On a
\* snapshot with distance 999, followBlackLine and followColorLine do not
\* return NAV_OBSTACLE, APPROACH_BOX does not go to PICKUP, FIND_BALL of
\* section 2 goes to SHOOT by its timeout only, FOLLOW_RED and TO_OBSTACLES
\* of section 3 see neither box nor obstacle; and the wall-hug loop breaks,
\* issuing no command, on a reading of 999.
C19_NoEchoIsFar ==
  /\ wallHugStep(NO_ECHO) = [cmds |-> <<>>, brk |-> TRUE]
  /\ [][(pc = "loop" /\ sensors'.distance = NO_ECHO) =>
          /\ lastCall' \in {"followBlackLine", "followColorLine"}
               => navResult' # "NAV_OBSTACLE"
          /\ currentState = "STATE_APPROACH_BOX"
               => currentState' = "STATE_APPROACH_BOX"
          /\ (currentState = "STATE_FIND_BALL"
              /\ currentState' = "STATE_SHOOT")
               => TimedOut(checkElapsed', TIMEOUT_SEARCH)
          /\ (prog = "s3" /\ currentState = "STATE_FOLLOW_RED")
               => currentState' \notin {"STATE_APPROACH_BOX",
                                        "STATE_TO_OBSTACLES"}
          /\ (prog = "s3" /\ currentState = "STATE_TO_OBSTACLES")
               => /\ currentState' = "STATE_TO_OBSTACLES"
                  /\ obstacleCount' = obstacleCount]_vars

\* Section 3 in TO_OBSTACLES, the box in the clamp, after a tick that read
\* no echo: followColorLine was called and the mission is where it was.
C19_Witness ==
  /\ prog = "s3"
  /\ currentState = "STATE_TO_OBSTACLES"
  /\ holding
  /\ sensors.distance = NO_ECHO
  /\ ~sensors.obstacleDetected
  /\ lastCall = "followColorLine"
  /\ navResult # "NAV_OBSTACLE"

\* The colour a colour-following state of the claim follows.
C20_Followed == IF prog = "s1" THEN "GREEN" ELSE "RED"

\* The colour-following states of the claim.  (A colour a guard leaves the
\* state on, as BLUE in FOLLOW_GREEN, changes currentState.)
C20_Following ==
  \/ prog = "s1" /\ currentState \in {"STATE_FOLLOW_GREEN", "STATE_TO_REUPLOAD"}
  \/ prog = "s3" /\ currentState = "STATE_TO_OBSTACLES"

\* C20: a tick of a colour-following state (FOLLOW_GREEN and TO_REUPLOAD of
\* section 1, TO_OBSTACLES of section 3) on a snapshot with no obstacle and
\* a recognised colour other than the followed one, after which the mission
\* is in the same state, leaves a forward drive command active.
C20_ForwardWhileFollowing ==
  [][(/\ pc = "loop"
      /\ pc' = "loop"
      /\ C20_Following
      /\ currentState' = currentState
      /\ lastCall' = "followColorLine"
      /\ ~sensors'.obstacleDetected
      /\ sensors'.detectedColor \notin {"NONE", C20_Followed})
       => lastDrive'[1] = "forward"]_vars


\* C21: in section 3, a tick of PASS_REUPLOAD that finds more than 5000 ms
\* spent in the state ends in a later state, whatever the sensors report.
C21_PassReuploadForcedOut ==
  [][(/\ prog = "s3"
      /\ currentState = "STATE_PASS_REUPLOAD"
      /\ pc' = "loop"
      /\ TimedOut(checkElapsed', S3_PASS_REUPLOAD_TIMEOUT))
       => currentState' # "STATE_PASS_REUPLOAD"]_vars


\* The transitions left from a state of a sketch to COMPLETE along the
\* shortest way through its state machine.  Section 3 comes through
\* TO_OBSTACLES twice, once for each obstacle.
C22_StepsLeft ==
  [ s1 |-> [STATE_FOLLOW_BLACK |-> 9, STATE_APPROACH_BOX |-> 8,
            STATE_PICKUP |-> 7, STATE_FIND_INTERSECTION |-> 6,
            STATE_SELECT_GREEN |-> 5, STATE_FOLLOW_GREEN |-> 4,
            STATE_APPROACH_BLUE |-> 3, STATE_DROP |-> 2,
            STATE_TO_REUPLOAD |-> 1, STATE_COMPLETE |-> 0],
    s2 |-> [STATE_CLIMB_RAMP |-> 10, STATE_ON_TARGET |-> 9,
            STATE_NAV_BLUE |-> 8, STATE_NAV_RED |-> 7, STATE_NAV_GREEN |-> 6,
            STATE_REACH_CENTER |-> 5, STATE_FIND_BALL |-> 4,
            STATE_SHOOT |-> 3, STATE_RETURN_RAMP |-> 2,
            STATE_TO_REUPLOAD |-> 1, STATE_COMPLETE |-> 0],
    s3 |-> [STATE_FIND_RED_LINE |-> 16, STATE_FOLLOW_RED |-> 15,
            STATE_APPROACH_BOX |-> 14, STATE_PICKUP |-> 13,
            STATE_TO_OBSTACLES |-> IF obstacleCount = 0 THEN 12 ELSE 9,
            STATE_AVOID_OBS_1 |-> 11, STATE_CLEAR_OBS_1 |-> 10,
            STATE_AVOID_OBS_2 |-> 8, STATE_CLEAR_OBS_2 |-> 7,
            STATE_PASS_REUPLOAD |-> 6, STATE_FIND_BLUE |-> 5,
            STATE_DROP |-> 4, STATE_RETURN_INTERSECTION |-> 3,
            STATE_FIND_BLACK |-> 2, STATE_FOLLOW_BLACK_HOME |-> 1,
            STATE_COMPLETE |-> 0] ]

\* The states whose handler, after searchForLine, ends the tick in the same
\* state; the others go on to another state after a blocking routine.
C22_SearchesInPlace ==
  \/ prog = "s1" /\ currentState = "STATE_FOLLOW_GREEN"
  \/ prog = "s3" /\ currentState = "STATE_PASS_REUPLOAD"

\* What is left to do inside the current state: the steps of a blocking
\* routine under way, and between two ticks the time to the deadline of a
\* timed state, or one more tick where the colour last read hides the
\* ring boundary that navigateToCenter must see.
C22_WorkLeft ==
  IF pc = "loop"
    THEN IF Timed(prog, currentState)
           THEN Budgets[prog][currentState] + 2 - elapsed
         ELSE IF currentState \in {"STATE_AVOID_OBS_1", "STATE_AVOID_OBS_2",
                                   "STATE_CLEAR_OBS_1"}
           THEN 20
         ELSE IF prog = "s2" /\ currentState = "STATE_NAV_GREEN"
                 /\ sensors.detectedColor = "BLACK"
           THEN 1
         ELSE 0
  ELSE IF pc = "avoid" THEN 14
  ELSE IF pc = "hug" THEN 13
  ELSE IF pc = "search"
    THEN IF C22_SearchesInPlace /\ search.target = "BLUE" THEN 14 ELSE 12
  ELSE IF pc = "searched" /\ C22_SearchesInPlace /\ search.target = "BLUE"
          /\ ~search.found
    THEN 13
  ELSE 11

\* A measure of the way to COMPLETE that some step can always shorten.
C22_Rank == C22_StepsLeft[prog][currentState] * 100000 + C22_WorkLeft

\* C22: no reachable mission state is a trap.  From every state of the
\* three sketches in which the mission is not COMPLETE, some iteration or
\* step of a blocking routine, on some snapshot and read time, brings the
\* mission nearer to COMPLETE; the measure is a natural number, so that
\* COMPLETE is reached after finitely many such steps.
C22_NoTrap ==
  /\ C22_Rank \in Nat
  /\ currentState # "STATE_COMPLETE"
       => ENABLED (Next /\ C22_Rank' < C22_Rank)

\* Section 3 in PASS_REUPLOAD past its deadline, both searches made in
\* vain: a state that no timeout leaves, and that a BLUE snapshot does.
C22_Witness ==
  /\ prog = "s3"
  /\ currentState = "STATE_PASS_REUPLOAD"
  /\ pc = "loop"
  /\ lastCall = "searchForLine"
  /\ TimedOut(elapsed, S3_PASS_REUPLOAD_TIMEOUT)


\* C23: in the three sketches every iteration of loop() makes exactly one
\* Sensors::readAll on the mission snapshot, and its handler calls at most
\* one Navigation primitive or maneuver (followBlackLine, followColorLine,
\* navigateToCenter, avoidObstacleRight, searchForLine, turn).
C23_OneReadOneCall ==
  tick # NoTick => (tick.reads = 1 /\ tick.calls <= 1)


\* C24: in the four sketches that keep a search state (sections 1 to 3 and
\* the standalone target_section), a change of state sets the new state,
\* restarts the time spent in the state, and resets the search state:
\* searchCount = 0 and searchDirection = +1.
C24_TransitionResets ==
  [][currentState' # currentState =>
       /\ searchCount' = 0
       /\ searchDirection' = 1
       /\ elapsed' \in {0, TIME_LOOP_DELAY}]_vars


\* C25: every step of the loop of wallHugUntilClear does exactly one of three
\* things: it issues curveRight, issues forward, or ends the loop.  No step
\* goes on to the next one without a drive command.
C25_HugStepActs ==
  [][pc = "hug" /\ hugI < hugMax =>
       \/ pc' = "hug" /\ cmds' = <<CurveRight(SPEED_NORMAL)>>
       \/ pc' = "hug" /\ cmds' = <<Forward(SPEED_NORMAL)>>
       \/ pc' = "hugged" /\ cmds' = <<>>]_vars


\* C26: wallHugUntilClear(maxSteps) returns, having read the distance at
\* most maxSteps times, and the last drive command it issued is stop, which
\* is then the command in effect; so it is for maxSteps = 0 as well.
C26_WallHugTerminates ==
  /\ [](hugReads <= hugMax)
  /\ [](pc = "loop" /\ lastCall = "wallHugUntilClear" =>
          /\ lastDrive = CmdStop
          /\ cmds # <<>>
          /\ Last(cmds) = CmdStop)
  /\ (pc = "hug" ~> pc = "loop")

\* It has returned after all of its 30 steps.
C26_Witness ==
  /\ pc = "loop"
  /\ lastCall = "wallHugUntilClear"
  /\ hugMax = HUG_MAX_STEPS
  /\ hugReads = HUG_MAX_STEPS
  /\ lastDrive = CmdStop


\* C27: searchForLine, once called, returns; it returns true if and only if
\* a snapshot read in its loop, before maxTime had gone by, showed the
\* target colour; a pass that does not show it pivots to the side of
\* searchDirection, stops, and negates searchDirection, so that successive
\* passes pivot to opposite sides.
C27_SearchForLine ==
  /\ [](pc = "searched" => (search.found <=> search.seen = search.target))
  /\ [][pc = "search" /\ pc' = "searched" =>
          (search'.found <=> search.t < search.maxTime)]_vars
  /\ [][pc = "search" /\ pc' = "search" =>
          /\ search.t < search.maxTime
          /\ search'.t > search.t
          /\ searchDirection' = -1 * searchDirection
          /\ cmds' = <<IF searchDirection > 0 THEN TurnRight(SPEED_TURN)
                                              ELSE TurnLeft(SPEED_TURN),
                       CmdStop>>
          /\ search.t > 0 => cmds'[1] # cmds[1]]_vars
  /\ (pc = "search" ~> pc = "searched")

\* The search for BLUE has returned false after pivots to both sides.
C27_Witness ==
  /\ pc = "searched"
  /\ ~search.found
  /\ search.t >= search.maxTime
  /\ search.maxTime = 2000
  /\ searchDirection = 1


\* C28: searchForLine returns with the drive stopped, on each of its return
\* paths and whatever drive command was in effect when it was called.
C28_SearchReturnsStopped ==
  pc = "searched" => lastDrive = CmdStop


\* Whether, in the sequence seq of drive commands, no pivot comes directly
\* after a forward and no forward directly after a pivot.
StopBetweenSubSteps(seq) ==
  \A i \in 1..(Len(seq) - 1) :
    /\ ~(seq[i][1] = "forward" /\ seq[i + 1][1] \in {"turnLeft", "turnRight"})
    /\ ~(seq[i][1] \in {"turnLeft", "turnRight"} /\ seq[i + 1][1] = "forward")

\* C29: inside avoidObstacleRight a stop is issued between every two
\* consecutive sub-steps: no pivot is commanded directly after a forward,
\* and no forward directly after a pivot.
C29_StopBetweenSubSteps ==
  lastCall = "avoidObstacleRight" => StopBetweenSubSteps(cmds)


\* C30: Navigation::turn(d) pivots right for d > 0 and left for d < 0, for
\* |d| * TIME_TURN_90 / 90 ms, and then stops: 250 ms for 45 degrees to
\* either side, 500 ms for 90, 1000 ms for 180, which are TIME_TURN_45,
\* TIME_TURN_90 and TIME_TURN_180, in a build with 16-bit int as in any
\* other.
C30_TurnDuration ==
  lastCall = "turn" /\ turned.degrees \in {45, -45, 90, -90, 180} =>
    /\ cmds = <<IF turned.degrees > 0 THEN TurnRight(SPEED_TURN)
                                      ELSE TurnLeft(SPEED_TURN), CmdStop>>
    /\ turned.turnTime = (Abs(turned.degrees) * TIME_TURN_90) \div 90
    /\ Abs(turned.degrees) = 45 => turned.turnTime = TIME_TURN_45
    /\ Abs(turned.degrees) = 90 => turned.turnTime = TIME_TURN_90
    /\ Abs(turned.degrees) = 180 => turned.turnTime = TIME_TURN_180


\* Number of pivot commands in the sequence seq of drive commands.
Pivots(seq) ==
  Cardinality({i \in 1..Len(seq) : seq[i][1] \in {"turnLeft", "turnRight"}})

\* C31: over the whole stay in the return state of section 2 (RETURN_RAMP
\* of section2.ino, RETURN of target_section.ino) exactly one pivot of 180
\* degrees is commanded: a tick pivots at most once, a tick that follows a
\* tick of the stay that pivoted does not pivot again, and a stay of one
\* tick pivots.  (SHOOT, the state before, commands no pivot.)
C31_OneTurnAround ==
  [][(currentState \in {"STATE_RETURN_RAMP", "STATE_RETURN"}) =>
       /\ Pivots(cmds') <= 1
       /\ (Pivots(cmds) > 0 => Pivots(cmds') = 0)
       /\ (currentState' # currentState /\ elapsed <= TIME_LOOP_DELAY =>
             Pivots(cmds') = 1)]_vars


\* C32: after any sequence of operations of Servos, isHolding() is true
\* exactly when the clamp angle tracked is CLOSED and the arm angle tracked
\* is not DOWN; it is true after pickup() and false after drop().
C32_HoldingIsClosedAndRaised ==
  prog = "servos" =>
    /\ Servos_isHolding([holding |-> holding]) <=>
         (servo.clamp = SERVO_CLAMP_CLOSED /\ servo.arm # SERVO_ARM_DOWN)
    /\ lastCall = "pickup" => Servos_isHolding([holding |-> holding])
    /\ lastCall = "drop" => ~Servos_isHolding([holding |-> holding])


\* C33: in section2.ino, a tick of NAV_BLUE, NAV_RED or NAV_GREEN whose
\* snapshot shows the colour of a ring further in (for which the standalone
\* target_section changes state on the colour alone) finds detectedColor
\* different from previousColor, has navigateToCenter return
\* NAV_TARGET_FOUND, and ends in the state the standalone goes to.
C33_InwardNeverSuppressed ==
  [][(/\ prog = "s2" /\ pc = "loop"
      /\ currentState \in
           {"STATE_NAV_BLUE", "STATE_NAV_RED", "STATE_NAV_GREEN"}
      /\ TS_NavNext(currentState, sensors'.detectedColor) # currentState)
     => /\ sensors'.detectedColor # sensors'.previousColor
        /\ navResult' = "NAV_TARGET_FOUND"
        /\ currentState' = TS_NavNext(currentState, sensors'.detectedColor)
    ]_vars

\* The centre reached from the green ring, on BLACK after GREEN.
C33_Witness ==
  /\ prog = "s2"
  /\ currentState = "STATE_REACH_CENTER"
  /\ lastCall = "navigateToCenter"
  /\ navResult = "NAV_TARGET_FOUND"
  /\ sensors.detectedColor = "BLACK"
  /\ sensors.previousColor = "GREEN"
  /\ searchDirection = 1


\* C34: between two ticks of section 1, Servos::isHolding() is true exactly
\* in FIND_INTERSECTION, SELECT_GREEN, FOLLOW_GREEN, APPROACH_BLUE and
\* DROP; a tick of PICKUP or of DROP leaves the state.
C34_HoldingStates ==
  /\ [](prog = "s1" /\ pc = "loop" =>
          (holding <=>
             currentState \in {"STATE_FIND_INTERSECTION", "STATE_SELECT_GREEN",
                               "STATE_FOLLOW_GREEN", "STATE_APPROACH_BLUE",
                               "STATE_DROP"}))
  /\ [][(prog = "s1" /\ currentState \in {"STATE_PICKUP", "STATE_DROP"}) =>
          currentState' # currentState]_vars

\* The box has just been dropped.
C34_Witness ==
  /\ prog = "s1"
  /\ pc = "loop"
  /\ currentState = "STATE_TO_REUPLOAD"
  /\ ~holding
  /\ elapsed = TIME_LOOP_DELAY


\* C35: in sections 1 and 3, pickup() and drop() are executed only with the
\* drive stopped: the handlers of PICKUP and DROP start with stop as the
\* drive command in effect, and the tick that changes the holding flag finds
\* the drive stopped and issues no drive command.
C35_GripperWhileStopped ==
  /\ [](prog \in {"s1", "s3"} /\ pc = "loop"
          /\ currentState \in {"STATE_PICKUP", "STATE_DROP"} =>
            lastDrive = CmdStop)
  /\ [][(prog \in {"s1", "s3"} /\ holding' # holding) =>
          (lastDrive = CmdStop /\ cmds' = <<>> /\ lastDrive' = CmdStop)]_vars

\* Section 3 has just dropped the box in the blue zone.
C35_Witness ==
  /\ prog = "s3"
  /\ pc = "loop"
  /\ currentState = "STATE_RETURN_INTERSECTION"
  /\ ~holding
  /\ elapsed = TIME_LOOP_DELAY
  /\ lastDrive = CmdStop


\* C36: in section 3, the handler of FOLLOW_RED runs only while the robot
\* is not holding and obstacleCount is 0; the state is left for APPROACH_BOX
\* only, never for TO_OBSTACLES or FIND_BLUE; a tick of FOLLOW_RED calls
\* transitionTo at most once.
C36_FollowRedOnlyToBox ==
  /\ [](prog = "s3" /\ currentState = "STATE_FOLLOW_RED" =>
          ~holding /\ obstacleCount = 0)
  /\ [][(prog = "s3" /\ currentState = "STATE_FOLLOW_RED") =>
          /\ currentState' \in {"STATE_FOLLOW_RED", "STATE_APPROACH_BOX"}
          /\ tick'.trans <= 1
          /\ (tick'.trans = 1 <=> currentState' = "STATE_APPROACH_BOX")]_vars

\* FOLLOW_RED has been left for the box.
C36_Witness ==
  /\ prog = "s3"
  /\ pc = "loop"
  /\ currentState = "STATE_APPROACH_BOX"
  /\ lastCall = "followColorLine"
  /\ tick.trans = 1
  /\ sensors.obstacleDetected


\* C37: in section 1, SELECT_GREEN is entered with no attempt made; each of
\* its ticks either leaves for FOLLOW_GREEN or makes one more attempt, of
\* which there are four at most, so that the fifth tick at the latest leaves;
\* a tick pivots at most once, to the left at the first and third attempt
\* and to the right at the second and fourth, so that the heading is 45
\* degrees to the left of, or the same as, the heading on entry; the tick
\* after four failed attempts leaves without a pivot.
C37_SelectGreen ==
  /\ [](prog = "s1" /\ currentState = "STATE_SELECT_GREEN" =>
          /\ selSearchAttempts \in 0..4
          /\ selSearchDir = IF selSearchAttempts % 2 = 0 THEN -1 ELSE 1)
  /\ [][(prog = "s1" /\ currentState # "STATE_SELECT_GREEN"
         /\ currentState' = "STATE_SELECT_GREEN") =>
          selSearchAttempts' = 0]_vars
  /\ [][(prog = "s1" /\ currentState = "STATE_SELECT_GREEN") =>
          /\ currentState' \in {"STATE_SELECT_GREEN", "STATE_FOLLOW_GREEN"}
          /\ Pivots(cmds') <= 1
          /\ (currentState' = "STATE_SELECT_GREEN" =>
                /\ selSearchAttempts' = selSearchAttempts + 1
                /\ Pivots(cmds') = 1)
          /\ (Pivots(cmds') = 1 =>
                cmds'[1] = IF selSearchAttempts % 2 = 0
                             THEN TurnLeft(SPEED_TURN)
                             ELSE TurnRight(SPEED_TURN))
          /\ (selSearchAttempts = 4 =>
                currentState' = "STATE_FOLLOW_GREEN" /\ cmds' = <<>>)]_vars

\* Four attempts have failed: the robot has turned left, right, left, right.
C37_Witness ==
  /\ prog = "s1"
  /\ pc = "loop"
  /\ currentState = "STATE_SELECT_GREEN"
  /\ selSearchAttempts = 4
  /\ selSearchDir = -1
  /\ lastDrive = CmdStop


\* C38: where the differences of detectColor are taken over the integers
\* (a build with 32-bit int), no reading passes more than one of the RED,
\* GREEN and BLUE tests, and the colour detected is the one the tests give
\* in the opposite order.
C38_ColourTestsExclusive ==
  (prog = "colorInt32" /\ lastCall = "readColor") =>
    LET r == sensors.redFreq
        g == sensors.greenFreq
        b == sensors.blueFreq
    IN  /\ ~(redTest(r, g, b, IntBits) /\ greenTest(r, g, b, IntBits))
        /\ ~(redTest(r, g, b, IntBits) /\ blueTest(r, g, b, IntBits))
        /\ ~(greenTest(r, g, b, IntBits) /\ blueTest(r, g, b, IntBits))
        /\ sensors.detectedColor = detectColor_blueFirst(r, g, b, IntBits)

\* A reading that passes the BLUE test alone, its two other channels
\* further apart than the margin.
C38_Witness ==
  /\ prog = "colorInt32"
  /\ lastCall = "readColor"
  /\ sensors.redFreq = 130
  /\ sensors.greenFreq = 100
  /\ sensors.blueFreq = 60
  /\ blueTest(130, 100, 60, 32)
  /\ sensors.detectedColor = "BLUE"


\* C39: the colour readColor of a standalone sketch returns is never WHITE,
\* and it is the colour Sensors::detectColor gives for the same reading
\* whenever that colour is not WHITE.
C39_SketchAgreesButWhite ==
  lastCall = "sketch readColor" =>
    LET c == detectColor(sensors.redFreq, sensors.greenFreq,
                         sensors.blueFreq, IntBits)
    IN  /\ sensors.detectedColor # "WHITE"
        /\ c # "WHITE" => sensors.detectedColor = c

\* A reading with one channel below COLOR_FREQ_WHITE that both classify
\* as GREEN.
C39_Witness ==
  /\ lastCall = "sketch readColor"
  /\ sensors.redFreq = 80
  /\ sensors.greenFreq = 30
  /\ sensors.blueFreq = 130
  /\ sensors.detectedColor = "GREEN"
  /\ detectColor(80, 30, 130, IntBits) = "GREEN"


\* C40: after any sequence of operations of TestFramework, currentTest is
\* passed + failed + skipped; an assertion adds one to passed and returns
\* true, or adds one to failed and returns false, and leaves the other of
\* the two and skipped alone; after reset() the four counters are 0.
C40_CountersAddUp ==
  /\ [](prog = "tests" =>
          tests.currentTest = tests.passed + tests.failed + tests.skipped)
  /\ [][(prog = "tests" /\ tests.ops' = tests.ops + 1
         /\ lastCall' \in {"assert", "assertEqual", "assertRange"}) =>
          /\ tests.skipped' = tests.skipped
          /\ \/ /\ tests.passed' = tests.passed + 1
                /\ tests.failed' = tests.failed
                /\ tests.returned' = {TRUE}
             \/ /\ tests.failed' = tests.failed + 1
                /\ tests.passed' = tests.passed
                /\ tests.returned' = {FALSE}]_vars
  /\ [][(prog = "tests" /\ tests.ops' = tests.ops + 1
         /\ lastCall' = "reset") =>
          /\ tests.currentTest' = 0 /\ tests.passed' = 0
          /\ tests.failed' = 0 /\ tests.skipped' = 0]_vars

=============================================================================
